---- MODULE Spec2Model ----
(***************************************************************************)
(* Model of the time handling of the Discord voice bot:                    *)
(*   DiscordEventHelper._parse_time          (src/src/discord_helpers.py)  *)
(*   DiscordBotGradio._preprocess_user_input (src/src/gradio_app.py)       *)
(*                                                                         *)
(* Time is counted in minutes.  A datetime is a record                     *)
(*   [y, mo, d, h, mi, s, off]                                             *)
(* whose off is the UTC offset (in minutes) of the pytz tzinfo attached to *)
(* it, or NoTz for a naive datetime.  As in pytz, arithmetic and replace() *)
(* on an aware datetime keep the tzinfo it already carries.                *)
(***************************************************************************)
EXTENDS Integers, Sequences, FiniteSets, TLC

VARIABLES
    now,         \* datetime.now(self.timezone): the anchor, an aware Berlin datetime
    time_str,    \* argument of _parse_time (its key in TimeKeys)
    duration,    \* argument duration_hours of _parse_time, in minutes
    result,      \* outcome of the last _parse_time call
    user_input,  \* argument of _preprocess_user_input (its key in InputKeys)
    pre,         \* outcome of the last _preprocess_user_input call
    events,      \* the scheduled events the Discord API returns
    args,        \* arguments of the list_upcoming_events call
    response,    \* outcome of the last list_upcoming_events call
    events_cache, \* self.events_cache of the helper
    calls,       \* the operations of tasks that share the helper
    mcp,         \* a DiscordMCPClient and what was done with it
    server       \* the module state of mcp_server and its SecurityMiddleware

listVars == <<events, args, response, events_cache, calls>>

serverVars == <<mcp, server>>

vars == <<now, time_str, duration, result, user_input, pre, listVars, serverVars>>

-----------------------------------------------------------------------------
(* The proleptic Gregorian calendar of datetime.date *)

MinutesPerDay == 1440

EpochYear == 2000

NoTz == 0 - 1

None == [kind |-> "none"]

Raised == [kind |-> "raise"]

IsLeap(y) == (y % 4 = 0 /\ y % 100 # 0) \/ y % 400 = 0

DaysInMonth(y, m) ==
    IF m = 2 THEN (IF IsLeap(y) THEN 29 ELSE 28)
    ELSE IF m \in {4, 6, 9, 11} THEN 30 ELSE 31

DaysBeforeMonth(y, m) ==
    <<0, 31, 59, 90, 120, 151, 181, 212, 243, 273, 304, 334>>[m]
        + (IF m > 2 /\ IsLeap(y) THEN 1 ELSE 0)

LeapsBefore(y) == ((y - 1) \div 4) - ((y - 1) \div 100) + ((y - 1) \div 400)

\* days from EpochYear-01-01 to y-01-01
DaysBeforeYear(y) == 365 * (y - EpochYear) + LeapsBefore(y) - LeapsBefore(EpochYear)

\* date.toordinal(), counted from EpochYear-01-01 = 0
DaysFromCivil(y, m, d) == DaysBeforeYear(y) + DaysBeforeMonth(y, m) + (d - 1)

YearOfDays(n) ==
    LET y0 == EpochYear + (n \div 366)
    IN  CHOOSE y \in y0..(y0 + 2) : DaysBeforeYear(y) <= n /\ n < DaysBeforeYear(y + 1)

MonthOfDays(y, n) ==
    CHOOSE m \in 1..12 :
        /\ DaysFromCivil(y, m, 1) <= n
        /\ n < DaysFromCivil(y, m, 1) + DaysInMonth(y, m)

\* date.weekday(): Monday = 0 ... Sunday = 6 (2000-01-01 was a Saturday)
Weekday(n) == (n + 5) % 7

ValidDate(y, m, d) == m \in 1..12 /\ d >= 1 /\ d <= DaysInMonth(y, m)

-----------------------------------------------------------------------------
(* datetime values and their arithmetic *)

DateTime(y, mo, d, h, mi, s, off) ==
    [kind |-> "dt", y |-> y, mo |-> mo, d |-> d, h |-> h, mi |-> mi, s |-> s, off |-> off]

\* the date of a datetime as a day number: dt.date()
DateOf(dt) == DaysFromCivil(dt.y, dt.mo, dt.d)

\* wall-clock minutes of a datetime, ignoring its tzinfo
Wall(dt) == DateOf(dt) * MinutesPerDay + dt.h * 60 + dt.mi

FromWall(w, s, off) ==
    LET n  == w \div MinutesPerDay
        r  == w % MinutesPerDay
        y  == YearOfDays(n)
        mo == MonthOfDays(y, n)
    IN  DateTime(y, mo, n - DaysFromCivil(y, mo, 1) + 1, r \div 60, r % 60, s, off)

\* dt + timedelta(minutes): wall-clock arithmetic, the tzinfo is kept as it is
PlusMinutes(dt, minutes) == FromWall(Wall(dt) + minutes, dt.s, dt.off)

\* the instant of an aware datetime in UTC minutes (seconds are in dt.s)
UtcMinutes(dt) == Wall(dt) - dt.off

-----------------------------------------------------------------------------
(* pytz.timezone('Europe/Berlin'): CET (+60), CEST (+120) from the last    *)
(* Sunday of March 01:00 UTC to the last Sunday of October 01:00 UTC       *)

CET == 60

CEST == 120

LastSunday(y, m) ==
    CHOOSE d \in (DaysInMonth(y, m) - 6)..DaysInMonth(y, m) :
        Weekday(DaysFromCivil(y, m, d)) = 6

DstStartUtc(y) == DaysFromCivil(y, 3, LastSunday(y, 3)) * MinutesPerDay + 60

DstEndUtc(y) == DaysFromCivil(y, 10, LastSunday(y, 10)) * MinutesPerDay + 60

\* the offset Europe/Berlin has at a UTC instant
BerlinOffsetAt(utc) ==
    LET y == YearOfDays(utc \div MinutesPerDay)
    IN  IF DstStartUtc(y) <= utc /\ utc < DstEndUtc(y) THEN CEST ELSE CET

\* utc_dt.astimezone(berlin): the civil Berlin datetime of an instant
ToBerlin(utc, s) == FromWall(utc + BerlinOffsetAt(utc), s, BerlinOffsetAt(utc))

\* berlin.localize(naive) with the default is_dst=False: the offset valid at
\* that civil moment; CET for an ambiguous or a non-existent wall time
Localize(dt) ==
    LET w == Wall(dt)
    IN  IF BerlinOffsetAt(w - CET) = CET THEN [dt EXCEPT !.off = CET]
        ELSE IF BerlinOffsetAt(w - CEST) = CEST THEN [dt EXCEPT !.off = CEST]
        ELSE [dt EXCEPT !.off = CET]

\* dt.replace(year=...): ValueError when the day does not exist in that year
ReplaceYear(dt, y) ==
    IF ValidDate(y, dt.mo, dt.d) THEN [dt EXCEPT !.y = y] ELSE Raised

\* dt.replace(hour=, minute=, second=0, microsecond=0)
ReplaceTime(dt, h, mi) ==
    IF h \in 0..23 /\ mi \in 0..59 THEN [dt EXCEPT !.h = h, !.mi = mi, !.s = 0] ELSE Raised

-----------------------------------------------------------------------------
(* str operations and the regular expressions of _parse_time *)

UpperChars == "ABCDEFGHIJKLMNOPQRSTUVWXYZÄÖÜ"

LowerChars == "abcdefghijklmnopqrstuvwxyzäöü"

Digits == "0123456789"

CharAt(s, i) == IF i >= 1 /\ i <= Len(s) THEN SubSeq(s, i, i) ELSE ""

\* key in s, for strings
Contains(s, key) ==
    \E i \in 1..(Len(s) - Len(key) + 1) : SubSeq(s, i, i + Len(key) - 1) = key

\* s[i:].startswith(key), i counted from 1
StartsWithAt(s, i, key) ==
    i >= 1 /\ i + Len(key) - 1 <= Len(s) /\ SubSeq(s, i, i + Len(key) - 1) = key

LowerChar(c) ==
    IF \E i \in 1..Len(UpperChars) : SubSeq(UpperChars, i, i) = c
    THEN LET i == CHOOSE k \in 1..Len(UpperChars) : SubSeq(UpperChars, k, k) = c
         IN  SubSeq(LowerChars, i, i)
    ELSE c

RECURSIVE Lower(_)
\* str.lower()
Lower(s) == IF s = "" THEN "" ELSE LowerChar(SubSeq(s, 1, 1)) \o Lower(SubSeq(s, 2, Len(s)))

\* str.strip()
Strip(s) ==
    IF \A i \in 1..Len(s) : CharAt(s, i) = " " THEN ""
    ELSE LET a == CHOOSE i \in 1..Len(s) :
                      CharAt(s, i) # " " /\ \A k \in 1..(i - 1) : CharAt(s, k) = " "
             b == CHOOSE i \in 1..Len(s) :
                      CharAt(s, i) # " " /\ \A k \in (i + 1)..Len(s) : CharAt(s, k) = " "
         IN  SubSeq(s, a, b)

IsDigitAt(s, i) == CharAt(s, i) # "" /\ Contains(Digits, CharAt(s, i))

DigitVal(c) == (CHOOSE k \in 1..10 : SubSeq(Digits, k, k) = c) - 1

RECURSIVE IntOf(_)
\* int(s) of a string of digits
IntOf(s) ==
    IF s = "" THEN 0
    ELSE 10 * IntOf(SubSeq(s, 1, Len(s) - 1)) + DigitVal(SubSeq(s, Len(s), Len(s)))

\* the index after the run of digits that starts at i (greedy \d+)
DigitsEnd(s, i) ==
    CHOOSE j \in i..(Len(s) + 1) :
        /\ \A k \in i..(j - 1) : IsDigitAt(s, k)
        /\ ~IsDigitAt(s, j)

\* the position after group 1, \d{1,2}, which starts at i
HourEnd(s, i) == IF IsDigitAt(s, i + 1) THEN i + 2 ELSE i + 1

\* the position after the optional ":" at e
ColonEnd(s, e) == IF CharAt(s, e) = ":" THEN e + 1 ELSE e

\* int(group 2) for the group (\d{2})? at e, 0 when the group is empty
MinuteAt(s, e) ==
    IF IsDigitAt(s, e) /\ IsDigitAt(s, e + 1) THEN IntOf(SubSeq(s, e, e + 1)) ELSE 0

\* the groups of the match that starts at i
TimeAt(s, i) ==
    [found  |-> TRUE,
     hour   |-> IntOf(SubSeq(s, i, HourEnd(s, i) - 1)),
     minute |-> MinuteAt(s, ColonEnd(s, HourEnd(s, i)))]

\* re.search(r'(\d{1,2}):?(\d{2})?', s): the leftmost digit starts the match,
\* every later part is optional and greedy
TimePart(s) ==
    IF \A i \in 1..Len(s) : ~IsDigitAt(s, i) THEN [found |-> FALSE]
    ELSE TimeAt(s, CHOOSE k \in 1..Len(s) :
                       IsDigitAt(s, k) /\ \A m \in 1..(k - 1) : ~IsDigitAt(s, m))

\* the alternatives of (stunden?|tagen?|minuten?|hours?|days?|minutes?),
\* each as <<mandatory part, optional last letter>>
UnitAlternatives ==
    << <<"stunde", "n">>, <<"tage", "n">>, <<"minute", "n">>,
       <<"hour", "s">>, <<"day", "s">>, <<"minute", "s">> >>

\* the unit group matched at i, directly followed by tail; "" when none matches
UnitAt(s, i, tail) ==
    LET fits(a) ==
            \/ /\ StartsWithAt(s, i, UnitAlternatives[a][1] \o UnitAlternatives[a][2])
               /\ StartsWithAt(s, i + Len(UnitAlternatives[a][1]) + 1, tail)
            \/ /\ StartsWithAt(s, i, UnitAlternatives[a][1])
               /\ StartsWithAt(s, i + Len(UnitAlternatives[a][1]), tail)
    IN  IF \E a \in 1..Len(UnitAlternatives) : fits(a)
        THEN UnitAlternatives[CHOOSE a \in 1..Len(UnitAlternatives) :
                                  fits(a) /\ \A b \in 1..(a - 1) : ~fits(b)][1]
        ELSE ""

\* r'in (\d+) (units)' matched with its first character at i
InPatternAt(s, i) ==
    /\ StartsWithAt(s, i, "in ")
    /\ IsDigitAt(s, i + 3)
    /\ CharAt(s, DigitsEnd(s, i + 3)) = " "
    /\ UnitAt(s, DigitsEnd(s, i + 3) + 1, "") # ""

\* r'(\d+) (units) from now' matched with its first character at i
FromNowPatternAt(s, i) ==
    /\ IsDigitAt(s, i)
    /\ CharAt(s, DigitsEnd(s, i)) = " "
    /\ UnitAt(s, DigitsEnd(s, i) + 1, " from now") # ""

\* the groups of a match whose number starts at i: int(match.group(1)) and
\* match.group(2)
RelativeGroups(s, i, tail) ==
    [found  |-> TRUE,
     amount |-> IntOf(SubSeq(s, i, DigitsEnd(s, i) - 1)),
     unit   |-> UnitAt(s, DigitsEnd(s, i) + 1, tail)]

\* the two re.search calls of the relative rule: amount and unit of the
\* leftmost match
RelativeMatch(s) ==
    IF \E i \in 1..Len(s) : InPatternAt(s, i)
    THEN RelativeGroups(s, 3 + (CHOOSE k \in 1..Len(s) :
                                    InPatternAt(s, k) /\ \A j \in 1..(k - 1) : ~InPatternAt(s, j)),
                        "")
    ELSE IF \E i \in 1..Len(s) : FromNowPatternAt(s, i)
    THEN RelativeGroups(s, CHOOSE k \in 1..Len(s) :
                               FromNowPatternAt(s, k) /\ \A j \in 1..(k - 1) : ~FromNowPatternAt(s, j),
                        " from now")
    ELSE [found |-> FALSE]

\* re.match(r'\d{4}-\d{2}-\d{2}', s)
IsIsoFormat(s) ==
    /\ \A i \in {1, 2, 3, 4, 6, 7, 9, 10} : IsDigitAt(s, i)
    /\ CharAt(s, 5) = "-"
    /\ CharAt(s, 8) = "-"

-----------------------------------------------------------------------------
(* dateparser.parse: the external natural-language date parser.  It is     *)
(* modelled for the shapes of text used here: an ISO date with an optional *)
(* time, a German "D. <Monat> [YYYY]" date, and "gestern"; any other text  *)
(* is not understood (None).  A date without a time is at 00:00, and the   *)
(* result is naive.                                                        *)

MonthNamesDe ==
    <<"januar", "februar", "märz", "april", "mai", "juni",
      "juli", "august", "september", "oktober", "november", "dezember">>

NaiveOrNone(y, mo, d, h, mi) ==
    IF ValidDate(y, mo, d) /\ h \in 0..23 /\ mi \in 0..59
    THEN DateTime(y, mo, d, h, mi, 0, NoTz)
    ELSE None

\* "YYYY-MM-DD" or "YYYY-MM-DD HH:MM"
DateparserIso(t) ==
    LET y  == IntOf(SubSeq(t, 1, 4))
        mo == IntOf(SubSeq(t, 6, 7))
        d  == IntOf(SubSeq(t, 9, 10))
    IN  IF Len(t) = 10 THEN NaiveOrNone(y, mo, d, 0, 0)
        ELSE IF /\ Len(t) = 16 /\ CharAt(t, 11) = " " /\ CharAt(t, 14) = ":"
                /\ \A i \in {12, 13, 15, 16} : IsDigitAt(t, i)
        THEN NaiveOrNone(y, mo, d, IntOf(SubSeq(t, 12, 13)), IntOf(SubSeq(t, 15, 16)))
        ELSE None

\* "D. <Monat>" or "D. <Monat> YYYY"; without a year the year is the anchor's,
\* and with PREFER_DATES_FROM = 'future' the next year when that date is over
DateparserDayMonth(t, prefer, base) ==
    LET e    == DigitsEnd(t, 1)
        d    == IntOf(SubSeq(t, 1, e - 1))
        rest == SubSeq(t, e + 2, Len(t))
        isM(m)  == rest = MonthNamesDe[m]
        isMY(m) == /\ Len(rest) = Len(MonthNamesDe[m]) + 5
                   /\ StartsWithAt(rest, 1, MonthNamesDe[m] \o " ")
                   /\ \A i \in (Len(rest) - 3)..Len(rest) : IsDigitAt(rest, i)
    IN  IF ~(IsDigitAt(t, 1) /\ StartsWithAt(t, e, ". ")) THEN None
        ELSE IF \E m \in 1..12 : isMY(m)
        THEN NaiveOrNone(IntOf(SubSeq(rest, Len(rest) - 3, Len(rest))),
                         CHOOSE m \in 1..12 : isMY(m), d, 0, 0)
        ELSE IF \E m \in 1..12 : isM(m)
        THEN LET mo == CHOOSE m \in 1..12 : isM(m)
                 over == mo < base.mo \/ (mo = base.mo /\ d < base.d)
             IN  NaiveOrNone(IF prefer = "future" /\ over THEN base.y + 1 ELSE base.y,
                             mo, d, 0, 0)
        ELSE None

\* the parse of a text that is stripped and in lower case
DateparserNormalized(t, prefer, base) ==
    IF IsIsoFormat(t) THEN DateparserIso(t)
    ELSE IF t = "gestern" THEN [PlusMinutes(base, 0 - MinutesPerDay) EXCEPT !.off = NoTz]
    ELSE DateparserDayMonth(t, prefer, base)

dateparser_parse(text, prefer, base) == DateparserNormalized(Strip(Lower(text)), prefer, base)

-----------------------------------------------------------------------------
(* DiscordEventHelper._parse_time *)

DefaultHour == 15

ValueError == [kind |-> "ValueError"]

WeekdayNames ==
    <<"montag", "dienstag", "mittwoch", "donnerstag", "freitag", "samstag", "sonntag",
      "monday", "tuesday", "wednesday", "thursday", "friday", "saturday", "sunday">>

\* days_map in its iteration order
DaysMap ==
    << <<"montag", 0>>, <<"monday", 0>>, <<"dienstag", 1>>, <<"tuesday", 1>>,
       <<"mittwoch", 2>>, <<"wednesday", 2>>, <<"donnerstag", 3>>, <<"thursday", 3>>,
       <<"freitag", 4>>, <<"friday", 4>>, <<"samstag", 5>>, <<"saturday", 5>>,
       <<"sonntag", 6>>, <<"sunday", 6>> >>

MonthNames ==
    <<"januar", "februar", "märz", "april", "mai", "juni",
      "juli", "august", "september", "oktober", "november", "dezember",
      "january", "february", "march", "april", "may", "june",
      "july", "august", "september", "october", "november", "december">>

\* the branch of the if/elif chain that takes the text
RuleOf(time_lower) ==
    IF Contains(time_lower, "heute") \/ Contains(time_lower, "today") THEN "today"
    ELSE IF Contains(time_lower, "übermorgen") THEN "day_after_tomorrow"
    ELSE IF Contains(time_lower, "morgen") \/ Contains(time_lower, "tomorrow") THEN "tomorrow"
    ELSE IF Contains(time_lower, "in") \/ Contains(time_lower, "from now") THEN "relative"
    ELSE IF \E i \in 1..Len(WeekdayNames) : Contains(time_lower, WeekdayNames[i]) THEN "weekday"
    ELSE "fallback"

\* base_date.replace(hour=, minute=, second=0, microsecond=0) with the time
\* of the text, or 15:00
AtTime(base_date, time_match) ==
    IF time_match.found
    THEN ReplaceTime(base_date, time_match.hour, time_match.minute)
    ELSE ReplaceTime(base_date, DefaultHour, 0)

\* the same, with the time searched in the text
AtTimeOfText(base_date, time_lower) == AtTime(base_date, TimePart(time_lower))

\* "heute" / "today", "übermorgen", "morgen" / "tomorrow"
DayRule(nw, time_lower, days) ==
    AtTimeOfText(PlusMinutes(nw, days * MinutesPerDay), time_lower)

\* now + timedelta of the matched amount and unit; ValueError without a match
RelativeDelta(nw, match) ==
    IF ~match.found THEN Raised
    ELSE IF StartsWithAt(match.unit, 1, "stunde") \/ StartsWithAt(match.unit, 1, "hour")
    THEN PlusMinutes(nw, match.amount * 60)
    ELSE IF StartsWithAt(match.unit, 1, "tag") \/ StartsWithAt(match.unit, 1, "day")
    THEN PlusMinutes(nw, match.amount * MinutesPerDay)
    ELSE PlusMinutes(nw, match.amount)

\* "in X Stunden/Tagen", "X hours from now"
RelativeRule(nw, time_lower) == RelativeDelta(nw, RelativeMatch(time_lower))

\* days_ahead of the first day name of days_map found in the text
WeekdayDaysAhead(nw, time_lower) ==
    LET k == CHOOSE i \in 1..Len(DaysMap) :
                 /\ Contains(time_lower, DaysMap[i][1])
                 /\ \A j \in 1..(i - 1) : ~Contains(time_lower, DaysMap[j][1])
        diff == DaysMap[k][2] - Weekday(DateOf(nw))
        days_ahead == IF diff <= 0 THEN diff + 7 ELSE diff
    IN  IF \/ Contains(time_lower, "übernächste")
           \/ Contains(time_lower, "übernächsten")
           \/ Contains(time_lower, "after_next")
        THEN days_ahead + 7
        ELSE days_ahead

WeekdayRule(nw, time_lower) ==
    AtTimeOfText(PlusMinutes(nw, WeekdayDaysAhead(nw, time_lower) * MinutesPerDay), time_lower)

\* what becomes of the result of dateparser: otherwise when it is None,
\* localized when it is naive
LocalizedOr(start_dt, otherwise) ==
    IF start_dt = None THEN otherwise
    ELSE IF start_dt.off = NoTz THEN Localize(start_dt)
    ELSE start_dt

\* a mutant of FallbackRule: an unparsed text falls back to the anchor
FallbackRuleDefaultsToNow(nw, ts) == LocalizedOr(dateparser_parse(ts, "future", nw), nw)

\* dateparser with PREFER_DATES_FROM 'future'; a naive result is localized
FallbackRule(nw, ts) == LocalizedOr(dateparser_parse(ts, "future", nw), Raised)

\* start_dt as the rules resolve it, before the year correction
Resolve(nw, ts) ==
    LET time_lower == Strip(Lower(ts))
        rule == RuleOf(time_lower)
    IN  CASE rule = "today" -> DayRule(nw, time_lower, 0)
          [] rule = "day_after_tomorrow" -> DayRule(nw, time_lower, 2)
          [] rule = "tomorrow" -> DayRule(nw, time_lower, 1)
          [] rule = "relative" -> RelativeRule(nw, time_lower)
          [] rule = "weekday" -> WeekdayRule(nw, time_lower)
          [] OTHER -> FallbackRule(nw, ts)

\* a <= b for aware datetimes: their instants are compared
NotAfter(a, b) ==
    \/ UtcMinutes(a) < UtcMinutes(b)
    \/ UtcMinutes(a) = UtcMinutes(b) /\ a.s <= b.s

IsSpecificDate(ts) ==
    \E i \in 1..Len(MonthNames) : Contains(Lower(ts), MonthNames[i])

\* "Automatische Jahr-Korrektur für Datumsangaben"; it is not reached when
\* the rules have raised
YearCorrection(nw, ts, start_dt) ==
    IF start_dt = Raised THEN Raised
    ELSE IF IsIsoFormat(ts)
    THEN IF start_dt.y < nw.y THEN ReplaceYear(start_dt, nw.y) ELSE start_dt
    ELSE IF NotAfter(start_dt, nw) /\ IsSpecificDate(ts) /\ start_dt.y < nw.y
    THEN ReplaceYear(start_dt, nw.y)
    ELSE start_dt

\* start_dt after the year correction, or Raised
StartDt(nw, ts) == YearCorrection(nw, ts, Resolve(nw, ts))

\* a mutant of EndDt: the end is localized anew at its own civil moment
EndDtRelocalized(start_dt, dur) == Localize(PlusMinutes(start_dt, dur))

\* end_dt = start_dt + timedelta(hours=duration_hours)
EndDt(start_dt, dur) == PlusMinutes(start_dt, dur)

\* end_dt and the conversion of both to UTC; any exception raised before
\* leaves as ValueError
Returned(start_dt, dur) ==
    IF start_dt = Raised THEN ValueError
    ELSE [kind  |-> "ok",
          start |-> UtcMinutes(start_dt),
          s     |-> start_dt.s,
          end   |-> UtcMinutes(EndDt(start_dt, dur))]

\* the value returned by _parse_time: (start_utc, end_utc), or ValueError
ParseTime(nw, ts, dur) == Returned(StartDt(nw, ts), dur)

-----------------------------------------------------------------------------
(* re.search for the patterns of _preprocess_user_input.  A pattern is a   *)
(* sequence of items, each a literal or a greedy repetition of a character *)
(* class; an optional group is written out as the variants with and        *)
(* without it, the variant with it first.                                  *)

Unbounded == 0 - 1

NoMatch == <<0>>

Lit(t) == [kind |-> "lit", text |-> t, min |-> 0, max |-> 0]

Cls(c, min, max) == [kind |-> "cls", text |-> c, min |-> min, max |-> max]

\* \s, \d, \w, [\d\.] and \.
InClass(c, cls) ==
    /\ c # ""
    /\ CASE cls = "s" -> c = " "
         [] cls = "d" -> Contains(Digits, c)
         [] cls = "w" -> \/ Contains(Digits, c) \/ Contains(LowerChars, c)
                         \/ Contains(UpperChars, c) \/ c = "_" \/ c = "ß"
         [] cls = "d." -> Contains(Digits, c) \/ c = "."
         [] cls = "." -> c = "."

\* how many characters from pos on are in the class, at most cap
RunLen(s, pos, cls, cap) ==
    LET lim == IF cap = Unbounded \/ cap > Len(s) - pos + 1 THEN Len(s) - pos + 1 ELSE cap
    IN  CHOOSE n \in 0..lim :
            /\ \A j \in 0..(n - 1) : InClass(CharAt(s, pos + j), cls)
            /\ n = lim \/ ~InClass(CharAt(s, pos + n), cls)

RECURSIVE MatchItems(_, _, _, _)
\* the match of items k.. at pos that the backtracking search finds first:
\* the position after each item, or NoMatch
MatchItems(s, items, k, pos) ==
    IF k > Len(items) THEN <<>>
    ELSE IF items[k].kind = "lit"
    THEN IF ~StartsWithAt(s, pos, items[k].text) THEN NoMatch
         ELSE LET rest == MatchItems(s, items, k + 1, pos + Len(items[k].text))
              IN  IF rest = NoMatch THEN NoMatch
                  ELSE <<pos + Len(items[k].text)>> \o rest
    ELSE LET run   == RunLen(s, pos, items[k].text, items[k].max)
             tries == {<<c, MatchItems(s, items, k + 1, pos + c)>> : c \in items[k].min..run}
             good  == {t \in tries : t[2] # NoMatch}
         IN  IF good = {} THEN NoMatch
             ELSE LET best == CHOOSE t \in good : \A u \in good : u[1] <= t[1]
                  IN  <<pos + best[1]>> \o best[2]

\* variant v matches at i
Hit(low, variants, i, v) == MatchItems(low, variants[v], 1, i) # NoMatch

\* the first variant that matches at i
FirstVariant(low, variants, i) ==
    CHOOSE w \in 1..Len(variants) :
        Hit(low, variants, i, w) /\ \A u \in 1..(w - 1) : ~Hit(low, variants, i, u)

\* the match found at i
MatchAt(low, variants, i) ==
    [found |-> TRUE, start |-> i, variant |-> FirstVariant(low, variants, i),
     ends |-> MatchItems(low, variants[FirstVariant(low, variants, i)], 1, i)]

\* the search in the case-folded text
SearchFolded(low, variants) ==
    IF ~\E i \in 1..Len(low), v \in 1..Len(variants) : Hit(low, variants, i, v)
    THEN [found |-> FALSE]
    ELSE MatchAt(low, variants,
                 CHOOSE k \in 1..Len(low) :
                     /\ \E v \in 1..Len(variants) : Hit(low, variants, k, v)
                     /\ \A j \in 1..(k - 1), v \in 1..Len(variants) : ~Hit(low, variants, j, v))

\* re.search(pattern, s, re.IGNORECASE) for a pattern given by its variants:
\* the leftmost start, there the first variant that matches.  ends[k] is the
\* position after item k of that variant.
Search(s, variants) == SearchFolded(Lower(s), variants)

\* [\d\.]+\s+\w+(?:\s+\d{4})?
DateWithMonth(year) ==
    <<Cls("d.", 1, Unbounded), Cls("s", 1, Unbounded), Cls("w", 1, Unbounded)>>
        \o (IF year THEN <<Cls("s", 1, Unbounded), Cls("d", 4, 4)>> ELSE <<>>)

\* [\d\.]+\.?\s*\w+\.?
DateShort ==
    <<Cls("d.", 1, Unbounded), Cls(".", 0, 1), Cls("s", 0, Unbounded),
      Cls("w", 1, Unbounded), Cls(".", 0, 1)>>

\* vom\s+(first)\s+bis\s+[zum\s+](second), with the items of the two groups
RangePattern(first, zum, second) ==
    [items |-> <<Lit("vom"), Cls("s", 1, Unbounded)>> \o first
                   \o <<Cls("s", 1, Unbounded), Lit("bis"), Cls("s", 1, Unbounded)>>
                   \o (IF zum THEN <<Lit("zum"), Cls("s", 1, Unbounded)>> ELSE <<>>)
                   \o second,
     first |-> Len(first), second |-> Len(second)]

\* the variants of patterns[0] and patterns[1]
MonthVariants(zum) ==
    << RangePattern(DateWithMonth(TRUE), zum, DateWithMonth(TRUE)),
       RangePattern(DateWithMonth(TRUE), zum, DateWithMonth(FALSE)),
       RangePattern(DateWithMonth(FALSE), zum, DateWithMonth(TRUE)),
       RangePattern(DateWithMonth(FALSE), zum, DateWithMonth(FALSE)) >>

\* the list patterns
Patterns ==
    << MonthVariants(TRUE),
       MonthVariants(FALSE),
       << RangePattern(DateShort, TRUE, DateShort) >>,
       << RangePattern(DateShort, FALSE, DateShort) >> >>

\* match.start(), match.end(), match.group(1) and match.group(2) of a match
\* of the variant pat
GroupsOf(s, m, pat) ==
    [found |-> TRUE,
     start |-> m.start,
     end   |-> m.ends[Len(pat.items)],
     group1 |-> SubSeq(s, m.ends[2], m.ends[2 + pat.first] - 1),
     group2 |-> SubSeq(s, m.ends[Len(pat.items) - pat.second], m.ends[Len(pat.items)] - 1)]

RangeGroups(s, pattern, m) ==
    IF ~m.found THEN [found |-> FALSE] ELSE GroupsOf(s, m, pattern[m.variant])

\* match of patterns[p]: the span of the match and its two groups
RangeMatch(s, p) ==
    RangeGroups(s, Patterns[p], Search(s, [v \in 1..Len(Patterns[p]) |-> Patterns[p][v].items]))

\* im\s+(januar|februar|...|dezember)
MonthPattern ==
    [m \in 1..12 |-> <<Lit("im"), Cls("s", 1, Unbounded), Lit(MonthNamesDe[m])>>]

MonthGroups(s, m) ==
    IF ~m.found THEN [found |-> FALSE]
    ELSE [found |-> TRUE, start |-> m.start, end |-> m.ends[3],
          group1 |-> SubSeq(s, m.ends[2], m.ends[3] - 1)]

MonthMatch(s) == MonthGroups(s, Search(s, MonthPattern))

-----------------------------------------------------------------------------
(* DiscordBotGradio._preprocess_user_input *)

RECURSIVE NatStr(_)
\* str(n) for n >= 0
NatStr(n) ==
    IF n < 10 THEN CharAt(Digits, n + 1)
    ELSE NatStr(n \div 10) \o CharAt(Digits, (n % 10) + 1)

\* n zero-padded to the given width
Padded(n, width) ==
    IF Len(NatStr(n)) >= width THEN NatStr(n)
    ELSE SubSeq("0000", 1, width - Len(NatStr(n))) \o NatStr(n)

\* dt.strftime('%Y-%m-%d')
FormatDate(dt) == Padded(dt.y, 4) \o "-" \o Padded(dt.mo, 2) \o "-" \o Padded(dt.d, 2)

\* a < b for naive datetimes
NaiveBefore(a, b) == Wall(a) < Wall(b) \/ (Wall(a) = Wall(b) /\ a.s < b.s)

Unchanged == [kind |-> "unchanged"]

\* the end date of a range, moved into the next year when it is before the start
RangeEnd(start_date, end_date) ==
    IF NaiveBefore(end_date, start_date)
    THEN ReplaceYear(end_date, end_date.y + 1)
    ELSE end_date

\* the rewrite with the two dates formatted; none when replace() has raised
RangeFormatted(match, start_date, end_date) ==
    IF end_date = Raised THEN Unchanged
    ELSE [kind  |-> "range",
          from  |-> match.start,
          to    |-> match.end,
          start |-> FormatDate(start_date),
          end   |-> FormatDate(end_date)]

\* "if start_date and end_date:"
RangeOfDates(match, start_date, end_date) ==
    IF start_date = None \/ end_date = None THEN Unchanged
    ELSE RangeFormatted(match, start_date, RangeEnd(start_date, end_date))

\* "if match:", and the two dateparser calls
RangeOfMatch(match, nw) ==
    IF ~match.found THEN Unchanged
    ELSE RangeOfDates(match,
                      dateparser_parse(Strip(match.group1), "current_period", nw),
                      dateparser_parse(Strip(match.group2), "current_period", nw))

\* the body of the loop for patterns[p]: the rewrite of the range, or
\* Unchanged when the pattern does not match, a bound is not parsed, or an
\* exception is caught
RangeRewrite(text, nw, p) == RangeOfMatch(RangeMatch(text, p), nw)

\* next_month - timedelta(days=next_month.day)
BeforeFirst(next_month) == PlusMinutes(next_month, 0 - next_month.d * MinutesPerDay)

\* month_end: replace(day=28) + 4 days lies in the next month, and going
\* back by its day of the month gives the last day of the month
MonthEnd(month_start) ==
    BeforeFirst(PlusMinutes([month_start EXCEPT !.d = 28], 4 * MinutesPerDay))

\* a mutant of MonthDays: the month of the anchor's year also when it is over
MonthDaysThisYear(nw, month_start) == DateOf(MonthEnd(month_start)) - DateOf(nw)

\* the number of days the phrase "im <Monat>" stands for
MonthDays(nw, month_start) ==
    IF DateOf(MonthEnd(month_start)) < DateOf(nw)
    THEN DateOf(MonthEnd(ReplaceYear(month_start, nw.y + 1))) - DateOf(nw)
    ELSE DateOf(MonthEnd(month_start)) - DateOf(nw)

\* "if days > 0:"
MonthOfDayCount(match_month, days) ==
    IF days > 0
    THEN [kind |-> "month", from |-> match_month.start, to |-> match_month.end, days |-> days]
    ELSE Unchanged

\* "if month_start:", the localization of a naive month_start and the days
MonthOfParsed(match_month, nw, parsed) ==
    IF parsed = None THEN Unchanged
    ELSE MonthOfDayCount(match_month, MonthDays(nw, IF parsed.off = NoTz THEN Localize(parsed) ELSE parsed))

\* "if match_month:", and the dateparser call for the first of the month
MonthOfMatch(match_month, nw) ==
    IF ~match_month.found THEN Unchanged
    ELSE MonthOfParsed(match_month, nw,
                       dateparser_parse("1. " \o match_month.group1 \o " " \o NatStr(nw.y),
                                        "current_period", nw))

\* the rewrite of "im <Monat>", or Unchanged
MonthRewrite(text, nw) == MonthOfMatch(MonthMatch(text), nw)

\* the first of the rewrites that is one, otherwise the one given
FirstRewrite(rewrites, otherwise) ==
    IF \E p \in 1..Len(rewrites) : rewrites[p] # Unchanged
    THEN rewrites[CHOOSE p \in 1..Len(rewrites) :
                      /\ rewrites[p] # Unchanged
                      /\ \A q \in 1..(p - 1) : rewrites[q] = Unchanged]
    ELSE otherwise

\* what _preprocess_user_input does to the text: the first pattern whose
\* range can be rewritten, else the month phrase, else nothing
Preprocess(text, nw) ==
    FirstRewrite([p \in 1..Len(Patterns) |-> RangeRewrite(text, nw, p)], MonthRewrite(text, nw))

\* the replacement that is spliced in
Replacement(rewrite) ==
    IF rewrite.kind = "range" THEN "von " \o rewrite.start \o " bis " \o rewrite.end
    ELSE "in den nächsten " \o NatStr(rewrite.days) \o " Tagen"

\* a mutant of NewInput: the text after the match is rewritten as well
NewInputRewritingRest(text, rewrite) ==
    IF rewrite = Unchanged THEN text
    ELSE SubSeq(text, 1, rewrite.from - 1) \o Replacement(rewrite)
             \o Replacement(rewrite)

\* the string returned by _preprocess_user_input
NewInput(text, rewrite) ==
    IF rewrite = Unchanged THEN text
    ELSE SubSeq(text, 1, rewrite.from - 1) \o Replacement(rewrite)
             \o SubSeq(text, rewrite.to, Len(text))

-----------------------------------------------------------------------------
(* DiscordEventHelper.list_upcoming_events.  An instant is counted in      *)
(* seconds of UTC.  A string argument that is not given is "", which the   *)
(* code treats as it treats None; days_ahead is None or Some(d).           *)

Some(v) == [kind |-> "int", v |-> v]

SecondsPerDay == 86400

NoStart == 0 - 1

\* the default duration_hours of _parse_time, in minutes
DefaultDuration == 60

\* the instant of an aware datetime
Instant(dt) == UtcMinutes(dt) * 60 + dt.s

\* the aware UTC datetime of an instant
UtcDateTime(t) == FromWall(t \div 60, t % 60, 0)

\* timeframe_map.get(timeframe, 7)
DaysOfPreset(timeframe) ==
    CASE timeframe = "today" -> 1
      [] timeframe = "tomorrow" -> 2
      [] timeframe = "week" -> 7
      [] timeframe = "2weeks" -> 14
      [] timeframe = "month" -> 30
      [] OTHER -> 7

\* the truth value of days_ahead: neither None nor 0
Truthy(days_ahead) == days_ahead # None /\ days_ahead.v # 0

\* a preset that gives way to a to_date
DaysAheadUnlessToDate(a) ==
    IF a.timeframe # "" /\ ~Truthy(a.days_ahead) /\ a.to_date = ""
    THEN Some(DaysOfPreset(a.timeframe))
    ELSE a.days_ahead

\* days_ahead after "if timeframe and not days_ahead"
DaysAhead(a) ==
    IF a.timeframe # "" /\ ~Truthy(a.days_ahead)
    THEN Some(DaysOfPreset(a.timeframe))
    ELSE a.days_ahead

\* parsed, _ = self._parse_time(text): the start, a UTC datetime; the
\* ValueError of _parse_time is passed on
ParsedStart(parsed) ==
    IF parsed = ValueError THEN Raised ELSE UtcDateTime(parsed.start * 60 + parsed.s)

\* start_filter
StartFilter(nw, a) ==
    IF a.from_date # ""
    THEN ParsedStart(ParseTime(nw, a.from_date, DefaultDuration))
    ELSE UtcDateTime(Instant(nw))

\* "Wenn end_filter VOR start_filter liegt, muss es im nächsten Jahr sein"
EndAfterStart(start_filter, end_filter) ==
    IF end_filter = Raised THEN Raised
    ELSE IF Instant(end_filter) < Instant(start_filter)
    THEN ReplaceYear(end_filter, end_filter.y + 1)
    ELSE end_filter

\* end_filter: a UTC datetime, None, or Raised
EndFilter(nw, a, days_ahead, start_filter) ==
    IF Truthy(days_ahead) THEN UtcDateTime(Instant(nw) + days_ahead.v * SecondsPerDay)
    ELSE IF a.to_date # ""
    THEN EndAfterStart(start_filter,
                       ParsedStart(ParseTime(nw, a.to_date, DefaultDuration)))
    ELSE None

\* a loop body that also keeps an event whose location is a part of the filter
KeepEitherWay(e, start_filter, end_filter, location) ==
    /\ e.start # NoStart
    /\ e.start >= Instant(start_filter)
    /\ end_filter # None => e.start <= Instant(end_filter)
    /\ location # "" =>
           /\ e.location # ""
           /\ \/ Contains(Lower(e.location), Lower(location))
              \/ Contains(Lower(location), Lower(e.location))

\* the body of the filter loop: the event is appended to filtered_events
Keep(e, start_filter, end_filter, location) ==
    /\ e.start # NoStart
    /\ e.start >= Instant(start_filter)
    /\ end_filter # None => e.start <= Instant(end_filter)
    /\ location # "" =>
           /\ e.location # ""
           /\ Contains(Lower(e.location), Lower(location))

Filtered(evs, start_filter, end_filter, location) ==
    SelectSeq(evs, LAMBDA e : Keep(e, start_filter, end_filter, location))

\* the fields of an ISO timestamp in UTC, in the order they are written
IsoFields(dt) == <<dt.y, dt.mo, dt.d, dt.h, dt.mi, dt.s>>

\* the sort key e.get('scheduled_start_time', ''): the timestamps Discord
\* sends are in UTC and of one width, so two of them compare as strings the
\* way their fields compare from left to right
StartKey(e) == IsoFields(UtcDateTime(e.start))

RECURSIVE LexLeq(_, _)
LexLeq(a, b) ==
    IF a = <<>> THEN TRUE
    ELSE IF a[1] # b[1] THEN a[1] < b[1]
    ELSE LexLeq(Tail(a), Tail(b))

\* e put behind the elements of a sorted list that are not greater
InsertSorted(e, sorted) ==
    LET k == Cardinality({i \in 1..Len(sorted) : LexLeq(StartKey(sorted[i]), StartKey(e))})
    IN  SubSeq(sorted, 1, k) \o <<e>> \o SubSeq(sorted, k + 1, Len(sorted))

RECURSIVE SortedByStart(_)
\* filtered_events.sort(key=...): a stable sort
SortedByStart(seq) ==
    IF seq = <<>> THEN <<>>
    ELSE InsertSorted(seq[Len(seq)], SortedByStart(SubSeq(seq, 1, Len(seq) - 1)))

\* the last elements of the list in place of the first
TakeLast(seq, limit) ==
    IF limit >= Len(seq) THEN seq
    ELSE IF limit > 0 THEN SubSeq(seq, Len(seq) - limit + 1, Len(seq))
    ELSE <<>>

\* seq[:limit]
Take(seq, limit) ==
    IF limit >= Len(seq) THEN seq
    ELSE IF limit >= 0 THEN SubSeq(seq, 1, limit)
    ELSE IF Len(seq) + limit > 0 THEN SubSeq(seq, 1, Len(seq) + limit)
    ELSE <<>>

\* a day key taken from the UTC date of the start
DayKeyUtc(e) == FormatDate(UtcDateTime(e.start))

\* day_key: berlin_time.strftime('%Y-%m-%d')
DayKey(e) == FormatDate(ToBerlin(e.start \div 60, e.start % 60))

\* the digits of a day key as a number: day keys compare as strings the way
\* these numbers compare
DayKeyDigits(key) ==
    IntOf(SubSeq(key, 1, 4)) * 10000 + IntOf(SubSeq(key, 6, 7)) * 100 + IntOf(SubSeq(key, 9, 10))

RECURSIVE SortedDays(_)
\* sorted(events_by_day.values(), key=lambda d: d['date'])
SortedDays(keys) ==
    IF keys = {} THEN <<>>
    ELSE LET first == CHOOSE k \in keys : \A o \in keys : DayKeyDigits(k) <= DayKeyDigits(o)
         IN  <<first>> \o SortedDays(keys \ {first})

\* events_by_day[day_key]
Bucket(list, key) ==
    [date |-> key, events |-> SelectSeq(list, LAMBDA e : DayKey(e) = key)]

BucketsOf(list, days) == [i \in 1..Len(days) |-> Bucket(list, days[i])]

EventsByDay(list) == BucketsOf(list, SortedDays({DayKey(list[i]) : i \in 1..Len(list)}))

\* the response for the events that are returned
ResponseOf(a, days_ahead, start_filter, end_filter, list) ==
    [kind |-> "ok",
     from |-> Instant(start_filter),
     to |-> IF end_filter = None THEN None ELSE Some(Instant(end_filter)),
     days_ahead |-> days_ahead,
     events |-> list,
     events_by_day |-> IF a.group_by_days THEN EventsByDay(list) ELSE <<>>]

\* filter, sort and limit; an exception raised for a bound is raised again
ListResponse(a, days_ahead, start_filter, end_filter, evs) ==
    IF start_filter = Raised \/ end_filter = Raised THEN Raised
    ELSE ResponseOf(a, days_ahead, start_filter, end_filter,
                    Take(SortedByStart(Filtered(evs, start_filter, end_filter, a.location)),
                         a.limit))

ListFrom(nw, evs, a, days_ahead, start_filter) ==
    ListResponse(a, days_ahead, start_filter,
                 IF start_filter = Raised THEN Raised
                 ELSE EndFilter(nw, a, days_ahead, start_filter),
                 evs)

\* what list_upcoming_events returns for the events evs of the API
ListUpcomingEvents(nw, evs, a) == ListFrom(nw, evs, a, DaysAhead(a), StartFilter(nw, a))

-----------------------------------------------------------------------------
(* A call of _parse_time: the clock gives the anchor, the caller a text    *)
(* and a duration                                                          *)

MaxDurationSteps == 7

DurationStep == 30

Durations == {DurationStep * k : k \in 1..MaxDurationSteps}

AnchorDays ==
    { <<2024, 2, 28>>, <<2025, 3, 29>>, <<2025, 3, 30>>, <<2025, 6, 16>>,
      <<2025, 10, 25>>, <<2025, 10, 26>>, <<2025, 11, 28>>, <<2025, 12, 31>> }

AnchorTimes == { <<0, 30>>, <<12, 0>>, <<23, 30>> }

AnchorSeconds == {0, 42}

\* datetime.now(self.timezone)
Anchors ==
    { Localize(DateTime(day[1], day[2], day[3], t[1], t[2], s, NoTz)) :
        day \in AnchorDays, t \in AnchorTimes, s \in AnchorSeconds }

\* The texts given to _parse_time.  A state names a text by an ASCII key:
\* the text itself, or its transliteration when it has an umlaut.
TimeKeys ==
    { "heute 15:00", "Heute", "today 9", "heute 23:30", "heute 25:00",
      "uebermorgen 10:00", "uebermorgen 00:30", "Uebermorgen",
      "morgen 18:30", "tomorrow 15:00", "morgen", "morgen 00:30",
      "in 5 Tagen", "in 3 Stunden", "in 0 minuten", "2 hours from now",
      "in 1 Tag", "in 2 days", "termin", "Freitag in Raum 2",
      "Montag 14:00", "Freitag 20:00", "sonntag 23:30", "sunday",
      "uebernaechsten montag 10:00",
      "2024-11-01 14:00", "2027-04-07 10:00", "2024-02-29 10:00", "2025-06-01",
      "2024-10-26 12:00", "1. Maerz 2020", "1. maerz 2024", "15. januar",
      "gestern", "ungueltige zeitangabe xyz", "nicht existierender ausdruck" }

TextOf(key) ==
    CASE key = "uebermorgen 10:00" -> "übermorgen 10:00"
      [] key = "uebermorgen 00:30" -> "übermorgen 00:30"
      [] key = "Uebermorgen" -> "Übermorgen"
      [] key = "uebernaechsten montag 10:00" -> "übernächsten montag 10:00"
      [] key = "1. Maerz 2020" -> "1. März 2020"
      [] key = "1. maerz 2024" -> "1. märz 2024"
      [] key = "ungueltige zeitangabe xyz" -> "ungültige zeitangabe xyz"
      [] OTHER -> key

\* neither the MCP client nor the MCP server is looked at
ServerIdle ==
    /\ mcp = None
    /\ server = None

\* no call of list_upcoming_events is looked at
ListIdle ==
    /\ ServerIdle
    /\ events = <<>>
    /\ args = None
    /\ response = None
    /\ events_cache = <<>>
    /\ calls = <<>>

InitParse ==
    /\ ListIdle
    /\ now \in Anchors
    /\ time_str \in TimeKeys
    /\ duration \in Durations
    /\ result = None
    /\ user_input = ""
    /\ pre = None

ParseTimeCall ==
    /\ result = None
    /\ result' = ParseTime(now, TextOf(time_str), duration)
    /\ UNCHANGED <<now, time_str, duration, user_input, pre, listVars, serverVars>>

NextParse == ParseTimeCall

SpecParse == InitParse /\ [][NextParse]_vars

-----------------------------------------------------------------------------
(* Properties of _parse_time *)

Called == result # None

TimeStr == TextOf(time_str)

TimeLower == Strip(Lower(TimeStr))

\* the returned start as a civil Europe/Berlin datetime
StartBerlin == ToBerlin(result.start, result.s)

\* C1: a call of _parse_time either raises ValueError or returns a window
\* whose length is exactly the duration asked for
C1_DurationExact ==
    Called => \/ result = ValueError
              \/ result.kind = "ok" /\ result.end - result.start = duration

\* a window was returned whose start and end lie on different sides of a
\* change between CET and CEST
C1_Witness ==
    /\ Called
    /\ result.kind = "ok"
    /\ BerlinOffsetAt(result.start) # BerlinOffsetAt(result.end)

\* the time of day the text gives is one that exists (or it gives none)
TimeOfTextValid ==
    LET time_part == TimePart(TimeLower)
    IN  time_part.found => time_part.hour \in 0..23 /\ time_part.minute \in 0..59

HourOfText == IF TimePart(TimeLower).found THEN TimePart(TimeLower).hour ELSE DefaultHour

MinuteOfText == IF TimePart(TimeLower).found THEN TimePart(TimeLower).minute ELSE 0

\* C2: for "morgen HH:MM" / "tomorrow HH:MM" the returned start, seen in
\* Europe/Berlin, is on the day after the anchor's civil date at HH:MM, also
\* when a change of the UTC offset lies between the anchor and that moment
C2_TomorrowCivilTime ==
    (/\ Called
     /\ RuleOf(TimeLower) = "tomorrow"
     /\ TimePart(TimeLower).found
     /\ TimeOfTextValid)
    => /\ result.kind = "ok"
       /\ DateOf(StartBerlin) = DateOf(now) + 1
       /\ StartBerlin.h = HourOfText
       /\ StartBerlin.mi = MinuteOfText

\* the weekday a text names
NamedWeekday ==
    CHOOSE n \in 0..6 :
        \E i \in 1..Len(DaysMap) : DaysMap[i][2] = n /\ Contains(TimeLower, DaysMap[i][1])

\* C3: for a text with a weekday name, taken by the weekday rule, the
\* returned start falls in Europe/Berlin on that weekday, 1 to 7 days after
\* the anchor's civil date, and 7 days after it when the anchor's weekday is
\* the named one.  (Stated for texts without the qualifier "übernächste" /
\* "after_next", which adds 7 more days by design.)
C3_WeekdayStrictlyFuture ==
    (/\ Called
     /\ RuleOf(TimeLower) = "weekday"
     /\ ~Contains(TimeLower, "übernächste")
     /\ ~Contains(TimeLower, "after_next")
     /\ result.kind = "ok")
    => /\ Weekday(DateOf(StartBerlin)) = NamedWeekday
       /\ DateOf(StartBerlin) - DateOf(now) \in 1..7
       /\ Weekday(DateOf(now)) = NamedWeekday => DateOf(StartBerlin) - DateOf(now) = 7

\* C4: for a text with "heute" / "today" the returned start lies in
\* Europe/Berlin on the anchor's civil date at the time of day of the text,
\* or at 15:00 when the text gives none
C4_TodayCivilTime ==
    (/\ Called
     /\ Contains(TimeLower, "heute") \/ Contains(TimeLower, "today")
     /\ TimeOfTextValid)
    => /\ result.kind = "ok"
       /\ DateOf(StartBerlin) = DateOf(now)
       /\ StartBerlin.h = HourOfText
       /\ StartBerlin.mi = MinuteOfText

\* C5: a text with "übermorgen" (and neither "heute" nor "today") resolves
\* to the anchor's civil date + 2 days, never to the anchor's date + 1 day
C5_DayAfterTomorrow ==
    (/\ Called
     /\ Contains(TimeLower, "übermorgen")
     /\ ~Contains(TimeLower, "heute")
     /\ ~Contains(TimeLower, "today")
     /\ TimeOfTextValid)
    => /\ result.kind = "ok"
       /\ DateOf(StartBerlin) = DateOf(now) + 2

\* the texts of the form "in N <unit>" / "N <unit> from now" among TimeKeys,
\* with the offset they name in minutes
RelativeOffsetOf ==
    [t \in {"in 5 Tagen", "in 3 Stunden", "in 0 minuten", "2 hours from now",
            "in 1 Tag", "in 2 days"} |->
        CASE t = "in 5 Tagen" -> 5 * MinutesPerDay
          [] t = "in 3 Stunden" -> 3 * 60
          [] t = "in 0 minuten" -> 0
          [] t = "2 hours from now" -> 2 * 60
          [] t = "in 1 Tag" -> MinutesPerDay
          [] t = "in 2 days" -> 2 * MinutesPerDay]

\* C6: for a text "in N <unit>" or "N <unit> from now" (hours, days or
\* minutes, German or English) the returned start is the anchor instant plus
\* exactly N units
C6_RelativeOffset ==
    (Called /\ time_str \in DOMAIN RelativeOffsetOf)
    => /\ result.kind = "ok"
       /\ result.start = UtcMinutes(now) + RelativeOffsetOf[time_str]
       /\ result.s = now.s

\* no rule resolves the text: the relative rule took it and its patterns do
\* not match, or the fallback took it and dateparser does not understand it
Unresolved ==
    \/ RuleOf(TimeLower) = "relative" /\ ~RelativeMatch(TimeLower).found
    \/ RuleOf(TimeLower) = "fallback" /\ dateparser_parse(TimeStr, "future", now) = None

\* C7: when no rule, the fallback parser included, resolves the text,
\* _parse_time raises ValueError and returns no window
C7_UnresolvedRaises == (Called /\ Unresolved) => result = ValueError

\* the fallback parser was asked, did not understand the text, and the call
\* ended with ValueError
C7_Witness ==
    /\ Called
    /\ RuleOf(TimeLower) = "fallback"
    /\ dateparser_parse(TimeStr, "future", now) = None
    /\ result = ValueError

\* the datetime the fallback parser reads from the text, localized
ParsedByFallback == Localize(dateparser_parse(TimeStr, "future", now))

\* C8: for a text that starts with an ISO date the start has the anchor's
\* year when the parsed year is before it, the parsed year otherwise, and
\* the parsed month, day and time
C8_IsoYear ==
    (/\ Called
     /\ IsIsoFormat(TimeStr)
     /\ RuleOf(TimeLower) = "fallback"
     /\ dateparser_parse(TimeStr, "future", now) # None)
    => /\ result.kind = "ok"
       /\ StartBerlin.y = IF ParsedByFallback.y < now.y THEN now.y ELSE ParsedByFallback.y
       /\ StartBerlin.mo = ParsedByFallback.mo
       /\ StartBerlin.d = ParsedByFallback.d
       /\ StartBerlin.h = ParsedByFallback.h
       /\ StartBerlin.mi = ParsedByFallback.mi

\* C9: for a text without an ISO date whose resolved start is not after the
\* anchor, the year is moved forward by exactly one when the text has a month
\* name and the parsed year is before the anchor's year, and the start is
\* returned as resolved otherwise
C9_MonthNameYear ==
    (/\ Called
     /\ ~IsIsoFormat(TimeStr)
     /\ Resolve(now, TimeStr) # Raised
     /\ NotAfter(Resolve(now, TimeStr), now))
    => LET start_dt == Resolve(now, TimeStr)
           year == IF IsSpecificDate(TimeStr) /\ start_dt.y < now.y
                   THEN start_dt.y + 1 ELSE start_dt.y
       IN  /\ result.kind = "ok"
           /\ result.start = UtcMinutes([start_dt EXCEPT !.y = year])

-----------------------------------------------------------------------------
(* A call of _preprocess_user_input *)

\* The texts given to _preprocess_user_input, named by ASCII keys
InputKeys ==
    { "vom 28. November bis zum 3. Maerz",
      "Events vom 28. November bis 3. Maerz bitte",
      "vom 1. Dezember bis zum 29. Dezember",
      "vom 1. Maerz bis zum 29. Februar",
      "vom 1. Maerz 2026 bis 1. Januar 2024",
      "vom 28. November 2025 bis zum 3. Maerz 2026",
      "vom 1.12. bis 5.12.",
      "vom 5. Termin bis 7. Mai im Juni",
      "vom 1. Mai bis 3. Mai im Juni",
      "vom 31. Februar bis 5. Maerz im Maerz",
      "von 2025-12-01 bis 2025-12-29",
      "was ist im November los",
      "Events im Maerz",
      "im Februar",
      "Im  Dezember",
      "zeige alle events" }

InputOf(key) ==
    CASE key = "vom 28. November bis zum 3. Maerz" -> "vom 28. November bis zum 3. März"
      [] key = "Events vom 28. November bis 3. Maerz bitte" -> "Events vom 28. November bis 3. März bitte"
      [] key = "vom 1. Maerz bis zum 29. Februar" -> "vom 1. März bis zum 29. Februar"
      [] key = "vom 1. Maerz 2026 bis 1. Januar 2024" -> "vom 1. März 2026 bis 1. Januar 2024"
      [] key = "vom 28. November 2025 bis zum 3. Maerz 2026" -> "vom 28. November 2025 bis zum 3. März 2026"
      [] key = "Events im Maerz" -> "Events im März"
      [] key = "vom 31. Februar bis 5. Maerz im Maerz" -> "vom 31. Februar bis 5. März im März"
      [] OTHER -> key

InitPre ==
    /\ ListIdle
    /\ now \in Anchors
    /\ user_input \in InputKeys
    /\ pre = None
    /\ time_str = ""
    /\ duration = 0
    /\ result = None

PreprocessCall ==
    /\ pre = None
    /\ pre' = Preprocess(InputOf(user_input), now)
    /\ UNCHANGED <<now, user_input, time_str, duration, result, listVars, serverVars>>

NextPre == PreprocessCall

SpecPre == InitPre /\ [][NextPre]_vars

-----------------------------------------------------------------------------
(* Properties of _preprocess_user_input *)

UserInput == InputOf(user_input)

\* the two bounds of a match as dateparser reads them
BoundsOf(match, nw) ==
    IF ~match.found THEN [found |-> FALSE]
    ELSE [found |-> TRUE,
          start |-> dateparser_parse(match.group1, "current_period", nw),
          end   |-> dateparser_parse(match.group2, "current_period", nw)]

\* the first of the bounds that are both parsed
FirstParsed(bounds) ==
    IF \E p \in 1..Len(bounds) : bounds[p].found /\ bounds[p].start # None /\ bounds[p].end # None
    THEN bounds[CHOOSE p \in 1..Len(bounds) :
                    /\ bounds[p].found /\ bounds[p].start # None /\ bounds[p].end # None
                    /\ \A q \in 1..(p - 1) :
                           ~(bounds[q].found /\ bounds[q].start # None /\ bounds[q].end # None)]
    ELSE [found |-> FALSE]

\* the first pattern that matches the text and whose two bounds both parse
ParsedRange ==
    FirstParsed([p \in 1..Len(Patterns) |-> BoundsOf(RangeMatch(UserInput, p), now)])

\* the end of a parsed range is before its start
EndBeforeStart(range) == range.found /\ NaiveBefore(range.end, range.start)

\* the rewrite emits the start of the range and its end a year later, and
\* for bounds of the same year that end is in the next year and not before
\* the start
EndNextYear(range, rewrite) ==
    /\ rewrite.kind = "range"
    /\ rewrite.start = FormatDate(range.start)
    /\ rewrite.end = FormatDate([range.end EXCEPT !.y = range.end.y + 1])
    /\ range.end.y = range.start.y
           => /\ IntOf(SubSeq(rewrite.end, 1, 4)) = range.start.y + 1
              /\ ~NaiveBefore([range.end EXCEPT !.y = range.end.y + 1], range.start)

\* C10: when a "vom X bis [zum] Y" phrase matches, both bounds parse and the
\* parsed end is before the parsed start, the emitted end date is the parsed
\* end with its year increased by one, which for bounds of the same year is
\* in the following year and not before the emitted start
C10_RangeEndNextYear ==
    (pre # None /\ EndBeforeStart(ParsedRange)) => EndNextYear(ParsedRange, pre)

\* a pattern has matched and dateparser did not read one of its bounds
UnparsedBound(bounds) == bounds.found /\ (bounds.start = None \/ bounds.end = None)

\* some pattern of the loop matches the text with a bound that is not parsed
SubParseFailed ==
    \E p \in 1..Len(Patterns) : UnparsedBound(BoundsOf(RangeMatch(UserInput, p), now))

\* C11: _preprocess_user_input never raises, and when a from/to pattern
\* matches the text but one of its bounds is not parsed, the text is
\* returned as it was given
C11_FailedParseKeepsText ==
    pre # None =>
        /\ pre # Raised
        /\ SubParseFailed => NewInput(UserInput, pre) = UserInput

\* no pattern of the loop matches the text
NoRangeMatch == \A p \in 1..Len(Patterns) : ~RangeMatch(UserInput, p).found

\* the month that the phrase "im <Monat>" of the text names
NamedMonth == CHOOSE m \in 1..12 : MonthNamesDe[m] = Lower(MonthMatch(UserInput).group1)

\* the day number of the last day of month m of year y
LastDayOf(y, m) == DaysFromCivil(y, m, DaysInMonth(y, m))

\* days from the anchor's date to the last day of the nearest occurrence of
\* the named month that is not over
DaysToMonthEnd ==
    IF LastDayOf(now.y, NamedMonth) < DateOf(now)
    THEN LastDayOf(now.y + 1, NamedMonth) - DateOf(now)
    ELSE LastDayOf(now.y, NamedMonth) - DateOf(now)

\* the text with the span of the month phrase replaced by the phrase for n days
WithDaysPhrase(text, match_month, n) ==
    SubSeq(text, 1, match_month.start - 1) \o "in den nächsten " \o NatStr(n) \o " Tagen"
        \o SubSeq(text, match_month.end, Len(text))

\* the month rule alone decides: the call is over, no range pattern matches
\* and the text has a phrase "im <Monat>"
MonthPhraseCase == pre # None /\ NoRangeMatch /\ MonthMatch(UserInput).found

\* C12 as claimed: in that case the phrase is replaced by "in den nächsten N
\* Tagen", N the days to the end of the nearest occurrence of the month that
\* is not over, at every anchor date
C12_MonthPhraseAlways ==
    MonthPhraseCase =>
        NewInput(UserInput, pre) = WithDaysPhrase(UserInput, MonthMatch(UserInput), DaysToMonthEnd)

\* C12, amended: the phrase is replaced in that way when N > 0; on the last
\* day of the named month (N = 0) the text is returned as it was given
C12_MonthPhraseDays ==
    MonthPhraseCase =>
        IF DaysToMonthEnd > 0
        THEN NewInput(UserInput, pre)
                 = WithDaysPhrase(UserInput, MonthMatch(UserInput), DaysToMonthEnd)
        ELSE NewInput(UserInput, pre) = UserInput

\* the phrase of a month that the anchor lies in was replaced by the days
\* that remain of it
C12_Witness ==
    /\ MonthPhraseCase
    /\ now.mo = NamedMonth
    /\ pre.kind = "month"
    /\ pre.days = LastDayOf(now.y, now.mo) - DateOf(now)

\* the text returned by the call
Output == NewInput(UserInput, pre)

\* the part of the returned text that stands where the match was
Spliced == SubSeq(Output, pre.from, Len(Output) - (Len(UserInput) - pre.to + 1))

\* "von YYYY-MM-DD bis YYYY-MM-DD"
IsCanonicalRange(s) ==
    /\ Len(s) = 29
    /\ SubSeq(s, 1, 4) = "von "
    /\ IsIsoFormat(SubSeq(s, 5, 14))
    /\ SubSeq(s, 15, 19) = " bis "
    /\ IsIsoFormat(SubSeq(s, 20, 29))

\* C13: a canonical range "von YYYY-MM-DD bis YYYY-MM-DD" that a range
\* rewrite has produced is returned unchanged when it is given to
\* _preprocess_user_input again, and a call substitutes one span only: the
\* text before and after the match is kept as it was
C13_CanonicalStable ==
    (pre # None /\ pre.kind = "range") =>
        /\ IsCanonicalRange(Spliced)
        /\ Preprocess(Spliced, now) = Unchanged
        /\ SubSeq(Output, 1, pre.from - 1) = SubSeq(UserInput, 1, pre.from - 1)
        /\ SubSeq(Output, Len(Output) - (Len(UserInput) - pre.to), Len(Output))
               = SubSeq(UserInput, pre.to, Len(UserInput))

\* a range was rewritten in a text that goes on with a month phrase, which
\* the call has left as it was
C13_Witness ==
    /\ pre # None
    /\ pre.kind = "range"
    /\ MonthMatch(SubSeq(UserInput, pre.to, Len(UserInput))).found
    /\ MonthMatch(SubSeq(Output, pre.from + 29, Len(Output))).found

-----------------------------------------------------------------------------
(* A call of list_upcoming_events: the clock gives the anchor, the Discord *)
(* API gives the scheduled events of the guild, the caller the arguments.  *)

DefaultLimit == 50

ListAnchorDays == { <<2024, 2, 28>>, <<2025, 6, 16>>, <<2025, 12, 31>> }

\* datetime.now(pytz.UTC), at noon and shortly before midnight in Berlin
ListAnchors ==
    { a \in Anchors : <<a.y, a.mo, a.d>> \in ListAnchorDays /\ a.h # 0 }

\* one scheduled event of the API: its id, 'scheduled_start_time' as an
\* instant (NoStart when the field is missing) and entity_metadata.location
\* ("" when there is none)
Event(id, start, location) == [id |-> id, start |-> start, location |-> location]

\* an event that starts the given minutes after the minute of the anchor
EventAt(nw, id, minutes, location) == Event(id, (UtcMinutes(nw) + minutes) * 60, location)

\* events days ahead, out of order, one in the past and one without a start
EventsOfDays(nw) ==
    << EventAt(nw, 1, 7 * MinutesPerDay, "Labor X"),
       EventAt(nw, 2, 1 * MinutesPerDay, "Office"),
       EventAt(nw, 3, 3 * MinutesPerDay, ""),
       EventAt(nw, 4, 0 - 60, "Labor X"),
       EventAt(nw, 5, 5 * MinutesPerDay + 1, "LABOR"),
       Event(6, NoStart, "Labor X") >>

\* events around the anchor and around midnight, two with the same start
EventsOfNight(nw) ==
    << EventAt(nw, 1, 40, "Labor X"),
       EventAt(nw, 2, 5 * MinutesPerDay, "labor"),
       EventAt(nw, 3, 40, "Labor X Raum 2"),
       EventAt(nw, 4, 0, ""),
       EventAt(nw, 5, 20, "Office") >>

EventLists(nw) == { EventsOfDays(nw), EventsOfNight(nw) }

Limits == {0, 2, DefaultLimit}

DaysAheadValues == {None, Some(0), Some(5), Some(0 - 1)}

Timeframes == {"", "week", "quarter"}

FromDateKeys == {"", "in 5 Tagen"}

ToDateKeys == {"", "morgen 10:00"}

LocationFilters == {"", "labor", "LABOR X Raum 2"}

ArgsSet ==
    [limit : Limits, days_ahead : DaysAheadValues, timeframe : Timeframes,
     from_date : FromDateKeys, to_date : ToDateKeys, location : LocationFilters,
     group_by_days : BOOLEAN]

\* no call of _parse_time or _preprocess_user_input is looked at
ParseIdle ==
    /\ time_str = ""
    /\ duration = DefaultDuration
    /\ result = None
    /\ user_input = ""
    /\ pre = None

InitList ==
    /\ ParseIdle
    /\ ServerIdle
    /\ now \in ListAnchors
    /\ events \in EventLists(now)
    /\ args \in ArgsSet
    /\ response = None
    /\ events_cache = <<>>
    /\ calls = <<>>

\* the arguments of the call with the texts their keys name
CallArgs == [args EXCEPT !.from_date = TextOf(@), !.to_date = TextOf(@)]

\* a call that leaves self.events_cache as it is
CacheKept(returned) == events_cache

\* what the call leaves in self.events_cache
CacheAfter(returned) == IF returned = Raised THEN events_cache ELSE returned.events

ListUpcomingEventsCall ==
    /\ response = None
    /\ response' = ListUpcomingEvents(now, events, CallArgs)
    /\ events_cache' = CacheAfter(response')
    /\ UNCHANGED <<now, time_str, duration, result, user_input, pre, events, args, calls, serverVars>>

NextList == ListUpcomingEventsCall

SpecList == InitList /\ [][NextList]_vars

-----------------------------------------------------------------------------
(* Properties of list_upcoming_events *)

\* the call has returned a response
Listed == response # None /\ response # Raised

AnchorInstant == Instant(now)

\* the instant the to_date of the call is parsed to
ToDateParsed == ParseTime(now, TextOf(args.to_date), DefaultDuration)

\* the bound the to_date of the call stands for, moved behind the start
ToDateBound ==
    EndAfterStart(UtcDateTime(response.from),
                  UtcDateTime(ToDateParsed.start * 60 + ToDateParsed.s))

\* a call with a to_date that can be parsed and a preset, without days_ahead
ToDateAndPreset ==
    /\ Listed
    /\ args.days_ahead = None
    /\ args.timeframe # ""
    /\ args.to_date # ""
    /\ ToDateParsed # ValueError
    /\ ToDateBound # Raised

\* C14 as stated: the end bound is chosen with the precedence days_ahead >
\* to_date > timeframe preset, so that a call with a to_date and a preset and
\* no days_ahead is bounded by the parsed to_date.
C14_ToDateBeforePreset ==
    ToDateAndPreset => response.to = Some(Instant(ToDateBound))

\* the end bound by the precedence days_ahead > timeframe preset > to_date
PresetBeforeToDate ==
    IF Truthy(args.days_ahead)
    THEN Some(AnchorInstant + args.days_ahead.v * SecondsPerDay)
    ELSE IF args.timeframe # ""
    THEN Some(AnchorInstant + DaysOfPreset(args.timeframe) * SecondsPerDay)
    ELSE IF args.to_date # "" THEN Some(Instant(ToDateBound))
    ELSE None

\* C14 amended: the end bound is chosen with the precedence days_ahead (other
\* than 0) > timeframe preset > to_date: the preset is turned into days_ahead
\* before the bounds are computed, so a to_date decides the end bound only
\* when neither days_ahead nor a preset is given, and a call with a to_date
\* and a preset is bounded by the days of the preset.
C14_PresetBeforeToDate ==
    Listed => response.to = PresetBeforeToDate

\* a call with a to_date and a preset was bounded by the days of the preset,
\* which is not where the to_date lies
C14_Witness ==
    /\ ToDateAndPreset
    /\ response.to = Some(AnchorInstant + DaysOfPreset(args.timeframe) * SecondsPerDay)
    /\ response.to # Some(Instant(ToDateBound))

\* the ids of the events of a list
IdsOf(list) == {list[i].id : i \in 1..Len(list)}

\* the source events that start in the closed window from lo to hi
StartingWithin(lo, hi) ==
    {events[i].id : i \in {j \in 1..Len(events) :
        /\ events[j].start # NoStart
        /\ lo <= events[j].start
        /\ events[j].start <= hi}}

\* a call with days_ahead, without from_date and location, whose limit is not
\* below the number of source events
DaysAheadCall ==
    /\ Listed
    /\ args.days_ahead # None
    /\ args.from_date = ""
    /\ args.location = ""
    /\ args.limit >= Len(events)

DaysAheadEnd == AnchorInstant + args.days_ahead.v * SecondsPerDay

\* C15: when days_ahead = d is supplied (any integer d, from_date absent), the
\* end bound is anchor_now + d days and the returned events are exactly the
\* source events with anchor_now <= start <= anchor_now + d days.
C15_DaysAheadWindow ==
    DaysAheadCall =>
        /\ response.to = Some(DaysAheadEnd)
        /\ IdsOf(response.events) = StartingWithin(AnchorInstant, DaysAheadEnd)

\* the source event starts inside the bounds of the response
InWindow(e) ==
    /\ e.start # NoStart
    /\ e.start >= response.from
    /\ response.to # None => e.start <= response.to.v

\* the ids of the source events inside the bounds whose location passes Match
WindowIds(Match(_)) ==
    {events[i].id : i \in {j \in 1..Len(events) : InWindow(events[j]) /\ Match(events[j])}}

\* the location of the event contains the filter of the call, whatever the case
ContainsFilter(e) ==
    e.location # "" /\ Contains(Lower(e.location), Lower(args.location))

\* the filter of the call contains the location of the event
FilterContains(e) ==
    e.location # "" /\ Contains(Lower(args.location), Lower(e.location))

EitherContains(e) == ContainsFilter(e) \/ FilterContains(e)

\* a call with a location filter whose limit is not below the number of
\* source events
LocationCall ==
    /\ Listed
    /\ args.location # ""
    /\ args.limit >= Len(events)

\* C16 as stated: with a location filter an event is kept if and only if it
\* has a location and, case-insensitively, the location contains the filter
\* or the filter contains the location.
C16_SymmetricMatch ==
    LocationCall => IdsOf(response.events) = WindowIds(EitherContains)

\* C16 amended: with a location filter an event is kept if and only if it has
\* a location and, case-insensitively, the location contains the filter; an
\* event whose location is only a part of the filter is dropped, and so are
\* events without a location.
C16_LocationContainsFilter ==
    LocationCall => IdsOf(response.events) = WindowIds(ContainsFilter)

\* a call kept an event whose location contains the filter and dropped one
\* whose location is a part of the filter and one without a location
C16_Witness ==
    /\ LocationCall
    /\ response.events # <<>>
    /\ \E i \in 1..Len(events) :
           /\ InWindow(events[i])
           /\ FilterContains(events[i])
           /\ ~ContainsFilter(events[i])
           /\ events[i].id \notin IdsOf(response.events)
    /\ \E i \in 1..Len(events) :
           /\ InWindow(events[i])
           /\ events[i].location = ""
           /\ events[i].id \notin IdsOf(response.events)

\* the location filter of the call lets the event pass
PassesLocation(e) == args.location = "" \/ ContainsFilter(e)

\* the indexes of the source events the filter loop keeps
KeptIndexes == {j \in 1..Len(events) : InWindow(events[j]) /\ PassesLocation(events[j])}

ReturnedEvents == response.events

Buckets == response.events_by_day

\* the places of the day buckets: bucket b, position i in it
BucketSlots ==
    UNION {{<<b, i>> : i \in 1..Len(Buckets[b].events)} : b \in 1..Len(Buckets)}

\* the Europe/Berlin civil date of the start of an event, as 'YYYY-MM-DD'
BerlinDateOf(e) == FormatDate(ToBerlin(e.start \div 60, e.start % 60))

\* the UTC date of the start of an event
UtcDateOf(e) == FormatDate(UtcDateTime(e.start))

Grouped == Listed /\ args.group_by_days

-----------------------------------------------------------------------------
(* The year corrections *)

\* the year correction of _parse_time applies to the text of the call: the
\* fallback parser read a date of an earlier year from an ISO text, or from a
\* text with a month name whose date is not after the anchor
YearCorrected ==
    /\ Called
    /\ RuleOf(TimeLower) = "fallback"
    /\ dateparser_parse(TimeStr, "future", now) # None
    /\ ParsedByFallback.y < now.y
    /\ \/ IsIsoFormat(TimeStr)
       \/ NotAfter(ParsedByFallback, now) /\ IsSpecificDate(TimeStr)

\* C19: the year corrections never raise: for every calendar date they are
\* applied to, leap days included, they complete without an error and yield
\* the corrected date; in _parse_time, a call whose text is year-corrected
\* returns a window whose start is in the anchor's year.
C19_YearCorrectionReturns ==
    YearCorrected => /\ result # ValueError
                     /\ StartBerlin.y = now.y

-----------------------------------------------------------------------------
(* Operations that share one helper.  The coroutines of the helper run on  *)
(* one event loop: a call runs up to "await call_discord_api" and, when    *)
(* the API has answered, from there to its end without another await.      *)
(* _find_event_by_name awaits list_upcoming_events(limit=100) and reads    *)
(* self.events_cache right after it.                                       *)

Tasks == 1..3

FindLimit == 100

\* a call with the defaults of the signature
DefaultArgs ==
    [limit |-> DefaultLimit, days_ahead |-> None, timeframe |-> "", from_date |-> "",
     to_date |-> "", location |-> "", group_by_days |-> FALSE]

\* the argument records of the list calls of the tasks
SharedArgs ==
    { DefaultArgs,
      [DefaultArgs EXCEPT !.location = "labor"],
      [DefaultArgs EXCEPT !.limit = 2],
      [DefaultArgs EXCEPT !.days_ahead = Some(5)],
      [DefaultArgs EXCEPT !.from_date = "in 5 Tagen", !.to_date = "morgen 10:00"] }

\* await self.list_upcoming_events(limit=100)
FindArgs == [DefaultArgs EXCEPT !.limit = FindLimit]

\* an operation a task has not begun: a list call, or _find_event_by_name
Operation(op, a) == [op |-> op, args |-> a, pc |-> "idle", response |-> None, seen |-> <<>>]

SharedAnchors == { a \in ListAnchors : a.y = 2024 /\ a.s = 0 }

InitShared ==
    /\ ParseIdle
    /\ ServerIdle
    /\ now \in SharedAnchors
    /\ events \in EventLists(now)
    /\ args = None
    /\ response = None
    /\ events_cache = <<>>
    /\ \E a \in SharedArgs : \E b \in SharedArgs :
           calls = <<Operation("list", a), Operation("list", b), Operation("find", FindArgs)>>

\* what the list call of a task returns
ResponseOfTask(t) ==
    ListUpcomingEvents(now, events,
                       [calls[t].args EXCEPT !.from_date = TextOf(@), !.to_date = TextOf(@)])

\* the task runs up to the await of the API call
CallStart(t) ==
    /\ calls[t].pc = "idle"
    /\ calls' = [calls EXCEPT ![t].pc = "awaiting"]
    /\ UNCHANGED <<now, time_str, duration, result, user_input, pre,
                   events, args, response, events_cache, serverVars>>

\* the API has answered a list call: it runs to its end
ListFinish(t) ==
    /\ calls[t].op = "list"
    /\ calls[t].pc = "awaiting"
    /\ events_cache' = CacheAfter(ResponseOfTask(t))
    /\ calls' = [calls EXCEPT ![t].pc = "done", ![t].response = ResponseOfTask(t)]
    /\ UNCHANGED <<now, time_str, duration, result, user_input, pre, events, args, response,
                   serverVars>>

\* the API has answered the list call of _find_event_by_name: the call runs
\* to its end and the loops over self.events_cache follow without an await;
\* they are not reached when the call has raised
FindFinish(t) ==
    /\ calls[t].op = "find"
    /\ calls[t].pc = "awaiting"
    /\ events_cache' = CacheAfter(ResponseOfTask(t))
    /\ calls' = [calls EXCEPT ![t].pc = "done", ![t].response = ResponseOfTask(t),
                              ![t].seen = IF ResponseOfTask(t) = Raised THEN <<>>
                                          ELSE events_cache']
    /\ UNCHANGED <<now, time_str, duration, result, user_input, pre, events, args, response,
                   serverVars>>

NextShared ==
    \E t \in Tasks : CallStart(t) \/ ListFinish(t) \/ FindFinish(t)

SpecShared == InitShared /\ [][NextShared]_vars

-----------------------------------------------------------------------------
(* Properties of operations that share one helper *)

\* the list call of task t runs to its end in this step
Finishes(t) == calls[t].pc = "awaiting" /\ calls'[t].pc = "done"

\* task t is done and its list call has returned a response
Answered(t) == calls[t].pc = "done" /\ calls[t].response # Raised

\* C20 as stated: a list_upcoming_events call neither reads nor writes state
\* of the helper that another call or operation can observe: no step of a
\* call changes self.events_cache.
C20_NoSharedState == [][events_cache' = events_cache]_vars

\* C20 amended: the result of a list_upcoming_events call depends only on its
\* own arguments, the anchor and the event list of the API, under every
\* interleaving; but the call is not without shared state: each call that
\* returns replaces self.events_cache of the helper by the events it returns
\* (a call that raises leaves it as it is), so the cache holds the result of
\* the call that returned last, and _find_event_by_name, which reads the
\* cache right after its own call, sees the events of its own call.
C20_ResultOwnCacheShared ==
    [][\A t \in Tasks : Finishes(t) =>
          /\ calls'[t].response = ResponseOfTask(t)
          /\ IF calls'[t].response = Raised
             THEN events_cache' = events_cache
             ELSE events_cache' = calls'[t].response.events
          /\ (calls[t].op = "find" /\ calls'[t].response # Raised) =>
                 calls'[t].seen = calls'[t].response.events]_vars

\* two list calls have returned different events, the cache holds those of
\* one of them and not those of the other, and _find_event_by_name has seen
\* the events of its own call
C20_Witness ==
    /\ \E t \in Tasks : \E u \in Tasks :
           /\ Answered(t) /\ Answered(u)
           /\ calls[t].response.events # calls[u].response.events
           /\ events_cache = calls[u].response.events
           /\ calls[t].response.events # <<>>
    /\ \E f \in Tasks :
           /\ calls[f].op = "find"
           /\ Answered(f)
           /\ calls[f].seen = calls[f].response.events
           /\ calls[f].seen # events_cache

-----------------------------------------------------------------------------
(* DiscordMCPClient.  The fastmcp Client is the environment: entering it,  *)
(* listing its tools, calling a tool and leaving it either return or       *)
(* raise.                                                                  *)

MaxOps == 4

McpModes == {"subprocess", "remote", "invalid"}

\* where the environment lets a connect fail: nowhere, before self.client
\* is assigned, or after it (in __aenter__ or list_tools)
ConnectFailures == {"none", "before", "after"}

\* DiscordMCPClient(config): __init__
NewClient(mode, url) ==
    [mode |-> mode,          \* config.mcp_mode
     url |-> url,            \* config.mcp_server_url is set
     client |-> "none",      \* self.client: "none", "local" or "remote"
     connected |-> FALSE,    \* self.connected
     op |-> "init",          \* the last operation
     outcome |-> "ok",       \* how it ended: "ok", "ValueError" or "Exception"
     starts |-> 0,           \* calls of _start_server_subprocess in it
     remotes |-> 0,          \* calls of _connect_to_remote_server in it
     forwarded |-> FALSE,    \* it called self.client.call_tool
     good |-> FALSE,         \* the last connect returned, no disconnect since
     ops |-> 0]

\* no clock, no call of the helper is looked at
HelperIdle ==
    /\ now = None
    /\ ParseIdle
    /\ events = <<>>
    /\ args = None
    /\ response = None
    /\ events_cache = <<>>
    /\ calls = <<>>

InitClient ==
    /\ HelperIdle
    /\ server = None
    /\ \E mode \in McpModes : \E url \in BOOLEAN : mcp = NewClient(mode, url)

\* the state of the client when an operation begins
Begun(c, op) ==
    [c EXCEPT !.op = op, !.outcome = "ok", !.starts = 0, !.remotes = 0,
              !.forwarded = FALSE, !.ops = c.ops + 1]

\* _start_server_subprocess
StartServerSubprocess(c, failure) ==
    IF failure = "before" THEN [c EXCEPT !.starts = 1, !.outcome = "Exception"]
    ELSE IF failure = "after"
    THEN [c EXCEPT !.starts = 1, !.client = "local", !.outcome = "Exception"]
    ELSE [c EXCEPT !.starts = 1, !.client = "local"]

\* _connect_to_remote_server
ConnectToRemoteServer(c, failure) ==
    IF ~c.url THEN [c EXCEPT !.remotes = 1, !.outcome = "ValueError"]
    ELSE IF failure = "before" THEN [c EXCEPT !.remotes = 1, !.outcome = "Exception"]
    ELSE IF failure = "after"
    THEN [c EXCEPT !.remotes = 1, !.client = "remote", !.outcome = "Exception"]
    ELSE [c EXCEPT !.remotes = 1, !.client = "remote"]

\* the branch of connect for the configured mode
ConnectBranch(c, failure) ==
    IF c.mode = "subprocess" THEN StartServerSubprocess(c, failure)
    ELSE IF c.mode = "remote" THEN ConnectToRemoteServer(c, failure)
    ELSE [c EXCEPT !.outcome = "ValueError"]

\* self.connected = True is reached when the branch has not raised
Connected(c) ==
    IF c.outcome = "ok" THEN [c EXCEPT !.connected = TRUE, !.good = TRUE]
    ELSE [c EXCEPT !.good = FALSE]

Connect ==
    /\ mcp.ops < MaxOps
    /\ \E failure \in ConnectFailures :
           mcp' = Connected(ConnectBranch(Begun(mcp, "connect"), failure))
    /\ UNCHANGED <<now, time_str, duration, result, user_input, pre, listVars, server>>

\* disconnect: an exception of __aexit__ is logged and not raised
Disconnected(c, raises) ==
    IF c.client # "none" /\ raises THEN [c EXCEPT !.good = FALSE]
    ELSE [c EXCEPT !.connected = FALSE, !.good = FALSE]

Disconnect ==
    /\ mcp.ops < MaxOps
    /\ \E raises \in BOOLEAN : mcp' = Disconnected(Begun(mcp, "disconnect"), raises)
    /\ UNCHANGED <<now, time_str, duration, result, user_input, pre, listVars, server>>

\* call_discord_api
ApiCalled(c, raises) ==
    IF ~c.connected THEN [c EXCEPT !.outcome = "Exception"]
    ELSE IF raises THEN [c EXCEPT !.forwarded = TRUE, !.outcome = "Exception"]
    ELSE [c EXCEPT !.forwarded = TRUE]

CallDiscordApi ==
    /\ mcp.ops < MaxOps
    /\ \E raises \in BOOLEAN : mcp' = ApiCalled(Begun(mcp, "call_discord_api"), raises)
    /\ UNCHANGED <<now, time_str, duration, result, user_input, pre, listVars, server>>

NextClient == Connect \/ Disconnect \/ CallDiscordApi

SpecClient == InitClient /\ [][NextClient]_vars

-----------------------------------------------------------------------------
(* Properties of DiscordMCPClient *)

\* C21: connect() with mcp_mode 'remote' falls back to the subprocess path:
\* it starts the in-process server via _start_server_subprocess exactly once,
\* as it does for mcp_mode 'subprocess'; any other mode raises ValueError.
C21_RemoteFallsBack ==
    mcp.op = "connect" =>
        IF mcp.mode \in {"subprocess", "remote"}
        THEN mcp.starts = 1
        ELSE mcp.starts = 0 /\ mcp.outcome = "ValueError"

\* C22: after any sequence of connect, disconnect and call_discord_api,
\* `connected` is True exactly when the most recent connect() completed
\* without raising and no disconnect() has returned since; call_discord_api
\* forwards a request to the underlying client only while `connected` is
\* True and raises otherwise.
C22_ConnectedIffLastConnectHolds ==
    /\ mcp.connected = mcp.good
    /\ mcp.op = "call_discord_api" =>
           /\ mcp.forwarded => mcp.connected
           /\ ~mcp.forwarded => mcp.outcome = "Exception"

-----------------------------------------------------------------------------
(* DiscordEventHelper.delete_event_by_name.  The MCP client is the         *)
(* environment: its GET and its DELETE return or raise, and a DELETE that  *)
(* raises has deleted the event at Discord or has not.                     *)

NotFound == [kind |-> "not found"]

\* a scheduled event with a name
NamedEvent(nw, id, minutes, name) ==
    [id |-> id, start |-> (UtcMinutes(nw) + minutes) * 60, location |-> "", name |-> name]

\* upcoming events and one that has begun
NamedEvents(nw) ==
    << NamedEvent(nw, 1, 3 * MinutesPerDay, "Weekly Team Meeting"),
       NamedEvent(nw, 2, 1 * MinutesPerDay, "Team Meeting"),
       NamedEvent(nw, 3, 0 - 60, "Sommerfest"),
       NamedEvent(nw, 4, 2 * MinutesPerDay, " Labor Treffen ") >>

NamedEventLists(nw) == { NamedEvents(nw), SubSeq(NamedEvents(nw), 3, 3), <<>> }

EventNames ==
    { "team meeting", "Meeting", "TEAM MEETING heute", "labor treffen",
      "Sommerfest", "Nicht Existiert" }

\* event_name.lower().strip()
NameKey(name) == Strip(Lower(name))

\* the first element of the cache that passes Match, or NotFound
FirstOf(cache, Match(_)) ==
    IF \E i \in 1..Len(cache) : Match(cache[i])
    THEN cache[CHOOSE i \in 1..Len(cache) :
                   Match(cache[i]) /\ \A k \in 1..(i - 1) : ~Match(cache[k])]
    ELSE NotFound

\* "Erst exakte Übereinstimmung versuchen"
ExactMatch(cache, name) ==
    FirstOf(cache, LAMBDA e : NameKey(e.name) = NameKey(name))

\* "Dann Teilstring-Match versuchen"
SubstringMatch(cache, name) ==
    FirstOf(cache, LAMBDA e : \/ Contains(NameKey(e.name), NameKey(name))
                              \/ Contains(NameKey(name), NameKey(e.name)))

\* a lookup that takes the first event of the cache, whatever its name
FirstInCache(cache, name) ==
    IF cache # <<>> THEN cache[1] ELSE NotFound

\* the loops of _find_event_by_name over self.events_cache: the event found,
\* or NotFound, for which ValueError is raised
FoundInCache(cache, name) ==
    IF ExactMatch(cache, name) # NotFound THEN ExactMatch(cache, name)
    ELSE SubstringMatch(cache, name)

\* the outcomes the environment gives a request: it returns, it raises
\* without effect, it raises after Discord has carried it out
RequestOutcomes == {"ok", "raises", "raises after effect"}

\* the events of a list without the event of an id
Without(list, id) == SelectSeq(list, LAMBDA e : e.id # id)

\* the result dict of delete_event_by_name
Deleted(name, id) == [success |-> TRUE, event_name |-> name, event_id |-> id, error |-> ""]

Failed(name, error) == [success |-> FALSE, event_name |-> name, event_id |-> None, error |-> error]

InitDelete ==
    /\ ParseIdle
    /\ server = None
    /\ now \in SharedAnchors
    /\ events \in NamedEventLists(now)
    /\ events_cache \in {<<>>, events}
    /\ args \in EventNames
    /\ response = None
    /\ calls = <<>>
    /\ mcp = [requests |-> <<>>]

\* the GET of list_upcoming_events(limit=100) raises: nothing else is done
DeleteLookupFails ==
    /\ response = None
    /\ response' = Failed(args, "Exception")
    /\ mcp' = [mcp EXCEPT !.requests = Append(@, <<"GET">>)]
    /\ UNCHANGED <<now, time_str, duration, result, user_input, pre,
                   events, args, events_cache, calls, server>>

\* the events _find_event_by_name has in the cache after its list call
Listed100(nw, evs) == ListUpcomingEvents(nw, evs, FindArgs).events

\* no event of the refreshed cache matches: ValueError, caught
DeleteNotFound ==
    /\ response = None
    /\ FoundInCache(Listed100(now, events), args) = NotFound
    /\ response' = Failed(args, "ValueError")
    /\ events_cache' = Listed100(now, events)
    /\ mcp' = [mcp EXCEPT !.requests = Append(@, <<"GET">>)]
    /\ UNCHANGED <<now, time_str, duration, result, user_input, pre,
                   events, args, calls, server>>

\* an event is found and the DELETE request is sent for it
DeleteFound(found) ==
    /\ mcp' = [mcp EXCEPT !.requests = @ \o << <<"GET">>, <<"DELETE", found.id>> >>]
    /\ \E outcome \in RequestOutcomes :
           /\ events' = IF outcome = "raises" THEN events ELSE Without(events, found.id)
           /\ response' = IF outcome = "ok" THEN Deleted(args, found.id)
                          ELSE Failed(args, "Exception")
           /\ events_cache' = IF outcome = "ok"
                              THEN Without(Listed100(now, events), found.id)
                              ELSE Listed100(now, events)

DeleteMatched ==
    /\ response = None
    /\ FoundInCache(Listed100(now, events), args) # NotFound
    /\ DeleteFound(FoundInCache(Listed100(now, events), args))
    /\ UNCHANGED <<now, time_str, duration, result, user_input, pre, args, calls, server>>

NextDelete == DeleteLookupFails \/ DeleteNotFound \/ DeleteMatched

SpecDelete == InitDelete /\ [][NextDelete]_vars

-----------------------------------------------------------------------------
(* Properties of delete_event_by_name *)

\* the DELETE requests the client was given
DeletesSent(client) ==
    SelectSeq(client.requests, LAMBDA r : r[1] = "DELETE")

\* the name of the event and the given name are equal or one contains the
\* other, whatever the case and the blanks around them
NameMatches(e, name) ==
    \/ Contains(Strip(Lower(e.name)), Strip(Lower(name)))
    \/ Contains(Strip(Lower(name)), Strip(Lower(e.name)))

\* the ids of the upcoming events of the API whose name matches
MatchingUpcoming ==
    {events[i].id : i \in {j \in 1..Len(events) :
        events[j].start >= Instant(now) /\ NameMatches(events[j], args)}}

\* the call returns in this step
DeleteReturns == response = None /\ response' # None

\* the call returns success: one DELETE was sent, for an upcoming event whose
\* name matches, and the event is not in the cache
DeleteSucceeded ==
    /\ DeletesSent(mcp') = << <<"DELETE", response'.event_id>> >>
    /\ response'.event_id \in MatchingUpcoming
    /\ \A i \in 1..Len(events_cache') : events_cache'[i].id # response'.event_id

\* C23 as stated: delete_event_by_name never raises; when no upcoming event
\* matches the name, or the lookup or the Discord call fails, it returns a
\* result with success False and an error text and issues no DELETE request;
\* when it returns success True exactly one DELETE was issued, for an event
\* whose name matches, and that event is no longer in events_cache.
C23_FailureSendsNoDelete ==
    [][DeleteReturns =>
          /\ MatchingUpcoming = {} => ~response'.success
          /\ IF response'.success THEN DeleteSucceeded
             ELSE response'.error # "" /\ DeletesSent(mcp') = <<>>]_vars

\* C23 amended: delete_event_by_name never raises; when no upcoming event
\* matches the name or the lookup fails it returns success False with an
\* error text and issues no DELETE request; when the DELETE request itself
\* fails it returns success False with an error text after that one DELETE
\* was issued, for an event whose name matches, and the event stays in
\* events_cache; when it returns success True exactly one DELETE was issued,
\* for an event whose name matches, and that event is no longer in
\* events_cache.
C23_DeleteResult ==
    [][DeleteReturns =>
          /\ MatchingUpcoming = {} => ~response'.success /\ DeletesSent(mcp') = <<>>
          /\ IF response'.success THEN DeleteSucceeded
             ELSE /\ response'.error # ""
                  /\ Len(DeletesSent(mcp')) <= 1
                  /\ \A i \in 1..Len(DeletesSent(mcp')) :
                         /\ DeletesSent(mcp')[i][2] \in MatchingUpcoming
                         /\ response'.error = "Exception"
                         /\ \E k \in 1..Len(events_cache') :
                                events_cache'[k].id = DeletesSent(mcp')[i][2]]_vars

\* a call has returned success for an event found by a part of its name: the
\* one DELETE was for it and the cache holds other events but not this one
C23_Witness ==
    /\ response # None
    /\ response.success
    /\ args = "Meeting"
    /\ mcp.requests = << <<"GET">>, <<"DELETE", response.event_id>> >>
    /\ events_cache # <<>>
    /\ \A i \in 1..Len(events_cache) : events_cache[i].id # response.event_id
    /\ \A i \in 1..Len(events) : events[i].id # response.event_id

-----------------------------------------------------------------------------
(* DiscordEventHelper.list_events_on_specific_day *)

\* dt.strftime("%Y-%m-%d %H:%M")
FormatMinute(dt) == FormatDate(dt) \o " " \o Padded(dt.h, 2) \o ":" \o Padded(dt.mi, 2)

\* dt.astimezone(pytz.UTC)
ToUtc(dt) == FromWall(UtcMinutes(dt), dt.s, 0)

\* from_dt_start_berlin: replace(hour=0, minute=0, second=0, microsecond=0)
\* of the parsed start in Berlin time
DayStartBerlin(parsed) == ReplaceTime(ToBerlin(parsed.start, parsed.s), 0, 0)

\* to_dt_end_berlin = from_dt_start_berlin + timedelta(days=1)
DayEndBerlin(parsed) == PlusMinutes(DayStartBerlin(parsed), MinutesPerDay)

\* the arguments given to list_upcoming_events
DayArgs(parsed, location, limit) ==
    [limit |-> limit, days_ahead |-> None, timeframe |-> "",
     from_date |-> FormatMinute(ToUtc(DayStartBerlin(parsed))),
     to_date |-> FormatMinute(ToUtc(DayEndBerlin(parsed))),
     location |-> location, group_by_days |-> TRUE]

ListOfDay(nw, evs, parsed, location, limit) ==
    IF parsed = ValueError THEN Raised
    ELSE ListUpcomingEvents(nw, evs, DayArgs(parsed, location, limit))

\* what list_events_on_specific_day returns; an exception is raised again
ListEventsOnSpecificDay(nw, evs, from_date, location, limit) ==
    ListOfDay(nw, evs, ParseTime(nw, from_date, DefaultDuration), location, limit)

\* the anchors of the calls: noon of a winter day and of a summer day
DayAnchors == { a \in ListAnchors : a.h = 12 /\ a.mo \in {2, 6} }

\* 00:00 of the anchor's civil date in Berlin, in UTC minutes
MidnightBefore(nw) == UtcMinutes(nw) - (nw.h * 60 + nw.mi)

\* events around both ends of the civil date that lies `days` after the
\* anchor's, and one at its noon
EventsAround(nw, days, id) ==
    << Event(id,     (MidnightBefore(nw) + days * MinutesPerDay - 30) * 60, "Labor X"),
       Event(id + 1, (MidnightBefore(nw) + days * MinutesPerDay + 30) * 60, "Office"),
       Event(id + 2, (MidnightBefore(nw) + days * MinutesPerDay + 720) * 60, "Labor X"),
       Event(id + 3, (MidnightBefore(nw) + days * MinutesPerDay + 1410) * 60, "Labor X"),
       Event(id + 4, (MidnightBefore(nw) + days * MinutesPerDay + 1470) * 60, "Office") >>

DayEventLists(nw) ==
    { EventsAround(nw, 1, 1) \o EventsAround(nw, 5, 6),
      EventsAround(nw, 5, 1),
      EventsAround(nw, 0, 1) }

DayKeys == {"morgen", "in 5 Tagen", "heute 15:00", "morgen 00:30", "termin"}

DayArgsSet == [from_date : DayKeys, location : {"", "labor"}, limit : {2, DefaultLimit}]

InitDay ==
    /\ ParseIdle
    /\ ServerIdle
    /\ now \in DayAnchors
    /\ events \in DayEventLists(now)
    /\ args \in DayArgsSet
    /\ response = None
    /\ events_cache = <<>>
    /\ calls = <<>>

ListEventsOnSpecificDayCall ==
    /\ response = None
    /\ response' = ListEventsOnSpecificDay(now, events, TextOf(args.from_date),
                                           args.location, args.limit)
    /\ events_cache' = CacheAfter(response')
    /\ UNCHANGED <<now, time_str, duration, result, user_input, pre, events, args, calls,
                   serverVars>>

NextDay == ListEventsOnSpecificDayCall

SpecDay == InitDay /\ [][NextDay]_vars

-----------------------------------------------------------------------------
(* Properties of list_events_on_specific_day *)

\* the Europe/Berlin civil date the from_date of the call resolves to
ResolvedFrom == ParseTime(now, TextOf(args.from_date), DefaultDuration)

ResolvedDate == FormatDate(ToBerlin(ResolvedFrom.start, ResolvedFrom.s))

\* the ids of the source events of that civil date that pass the location
EventsOfThatDate ==
    {events[i].id : i \in {j \in 1..Len(events) :
        /\ events[j].start # NoStart
        /\ BerlinDateOf(events[j]) = ResolvedDate
        /\ PassesLocation(events[j])}}

\* C24: list_events_on_specific_day(from_date) returns exactly the source
\* events (subject to location and limit) whose start falls on the
\* Europe/Berlin civil date that from_date resolves to: no event of the
\* previous or the next civil date is returned and none of that date is left
\* out, in winter and in summer time.
C24_WholeCivilDay ==
    (Listed /\ args.limit >= Len(events)) =>
        IdsOf(response.events) = EventsOfThatDate

-----------------------------------------------------------------------------
(* The order of the rules of _parse_time *)

\* the text has none of the words of the today, day-after-tomorrow and
\* tomorrow rules
NoDayWord ==
    /\ ~Contains(TimeLower, "heute") /\ ~Contains(TimeLower, "today")
    /\ ~Contains(TimeLower, "morgen") /\ ~Contains(TimeLower, "tomorrow")

\* the text has the form 'in N <unit>' or 'N <unit> from now'
HasRelativeForm == RelativeMatch(TimeLower).found

NamesWeekday == \E i \in 1..Len(WeekdayNames) : Contains(TimeLower, WeekdayNames[i])

\* what the call returns when the rule has resolved the text to start_dt
ReturnedFor(start_dt) == Returned(YearCorrection(now, TimeStr, start_dt), duration)

\* C25: the rules are tried in the order today, day-after-tomorrow,
\* tomorrow, relative offset, weekday, general fallback, and a rule whose
\* pattern does not match hands the text to the next rule: a text that does
\* not have the form 'in N <unit>' or 'N <unit> from now' is resolved by the
\* weekday rule when it names a weekday and by the general fallback
\* otherwise.
C25_RelativeFormOnly ==
    (Called /\ NoDayWord /\ ~HasRelativeForm) =>
        result = IF NamesWeekday THEN ReturnedFor(WeekdayRule(now, TimeLower))
                 ELSE ReturnedFor(FallbackRule(now, TimeStr))

-----------------------------------------------------------------------------
(* The phrase of the month rule and _parse_time *)

\* the phrase the month rule has put into the text
EmittedPhrase == Replacement(pre)

\* the outcome parsed of a _parse_time call is a window that starts the given
\* number of days after the anchor, at the anchor's time of day in Berlin
StartsDaysAfter(parsed, days) ==
    /\ parsed # ValueError
    /\ DateOf(ToBerlin(parsed.start, parsed.s)) = DateOf(now) + days
    /\ ToBerlin(parsed.start, parsed.s).h = now.h
    /\ ToBerlin(parsed.start, parsed.s).mi = now.mi

\* C26: every phrase 'in den nächsten N Tagen' that the month rule emits is
\* understood by the time parser: _parse_time accepts it without error and
\* resolves it to the anchor plus N days.
C26_EmittedPhraseParses ==
    (pre # None /\ pre.kind = "month") =>
        StartsDaysAfter(ParseTime(now, EmittedPhrase, DefaultDuration), pre.days)

-----------------------------------------------------------------------------
(* The end bound of list_upcoming_events that lies before the start bound *)

\* the start bound of the call: the parsed from_date, or now without one
ResolvedStart == StartFilter(now, CallArgs)

\* the end bound as the inputs of the call give it, before any correction:
\* now + days_ahead days, or the parsed to_date
ResolvedEnd ==
    IF Truthy(DaysAhead(CallArgs))
    THEN UtcDateTime(AnchorInstant + DaysAhead(CallArgs).v * SecondsPerDay)
    ELSE IF args.to_date # ""
    THEN ParsedStart(ParseTime(now, TextOf(args.to_date), DefaultDuration))
    ELSE None

\* the call is over, both bounds were resolved and the end is before the start
EndBeforeStartBound ==
    /\ response # None
    /\ ResolvedStart # Raised
    /\ ResolvedEnd # None
    /\ ResolvedEnd # Raised
    /\ Instant(ResolvedEnd) < Instant(ResolvedStart)

\* the bound with the same month, day and time of day in the following year
YearLater(end_filter) ==
    Instant([end_filter EXCEPT !.y = end_filter.y + 1])

\* C27: whenever the resolved end bound is earlier than the resolved start
\* bound (the parsed from_date, or now without one), the end bound's year is
\* rolled forward by one before any event is filtered, whichever input
\* (to_date or days_ahead) produced the end bound.
C27_EndRolledForward ==
    EndBeforeStartBound =>
        /\ response # Raised
        /\ response.to = Some(YearLater(ResolvedEnd))

-----------------------------------------------------------------------------
(* The MCP server: SecurityMiddleware.  A workload is the cycle of tool    *)
(* calls that arrive at the server; between two calls the clock may move   *)
(* on.  The tool itself (call_next) is not looked at here.                 *)

MaxCalls == 34

Tick == 30

MaxClock == 2 * Tick

\* SecurityMiddleware.TOOL_SCOPES
TOOL_SCOPES ==
    [tool \in {"create_event", "send_message", "update_event"} |-> "tools:write"]
    @@ [tool \in {"delete_event_by_name", "delete_message", "delete_last_message"}
           |-> "tools:admin"]

\* (max_calls, window_seconds)
WRITE_RATE_LIMIT == <<10, 60>>

READ_RATE_LIMIT == <<30, 60>>

\* _role_to_scopes
RoleToScopes(role) ==
    CASE role = "reader" -> {"tools:read"}
      [] role = "writer" -> {"tools:read", "tools:write"}
      [] role = "admin" -> {"tools:read", "tools:write", "tools:admin"}
      [] OTHER -> {}

\* an access token as load_api_keys hands it to the verifier
AccessToken(name, role) == [client_id |-> name, scopes |-> RoleToScopes(role)]

\* client_id = token.client_id if token else "unknown"
ClientIdOf(token) == IF token = None THEN "unknown" ELSE token.client_id

\* user_scopes = token.scopes if token else []
ScopesOf(token) == IF token = None THEN {} ELSE token.scopes

ClientIds == {"voicebot", "dashboard", "operator", "unknown"}

ToolCall(token, tool) == [token |-> token, tool |-> tool]

\* the cycles of tool calls that arrive
Workloads ==
    { <<ToolCall(AccessToken("dashboard", "reader"), "list_upcoming_events")>>,
      <<ToolCall(AccessToken("voicebot", "writer"), "send_message"),
        ToolCall(AccessToken("voicebot", "writer"), "list_channels"),
        ToolCall(AccessToken("voicebot", "writer"), "delete_message")>>,
      <<ToolCall(AccessToken("voicebot", "writer"), "create_event"),
        ToolCall(AccessToken("operator", "admin"), "delete_event_by_name"),
        ToolCall(None, "update_event")>> }

\* self.TOOL_SCOPES.get(tool_name), "" for None
RequiredScope(tool_name) ==
    IF tool_name \in DOMAIN TOOL_SCOPES THEN TOOL_SCOPES[tool_name] ELSE ""

RateLimitOf(is_write) == IF is_write THEN WRITE_RATE_LIMIT ELSE READ_RATE_LIMIT

\* "Alte Eintraege entfernen"
Recent(entries, t, window) == SelectSeq(entries, LAMBDA e : t - e[1] < window)

\* a count of all entries, whatever their class
CountAll(entries, is_write) == Len(entries)

\* "Relevante Aufrufe zaehlen"
CountOf(entries, is_write) ==
    Cardinality({i \in 1..Len(entries) : entries[i][2] = is_write})

\* _check_rate_limit at time t: its return value and the entries it leaves
\* for the client
CheckRateLimit(entries, is_write, t) ==
    IF CountOf(Recent(entries, t, RateLimitOf(is_write)[2]), is_write)
           >= RateLimitOf(is_write)[1]
    THEN [ok |-> FALSE, entries |-> Recent(entries, t, RateLimitOf(is_write)[2])]
    ELSE [ok |-> TRUE,
          entries |-> Append(Recent(entries, t, RateLimitOf(is_write)[2]),
                             <<t, is_write>>)]

\* log_action: one row of the audit log
AuditRow(call, result_summary, success) ==
    [client_id |-> ClientIdOf(call.token), action |-> call.tool,
     result_summary |-> result_summary, success |-> success]

\* the middleware of a server that has taken no call; admitted is the
\* history of the calls handed to call_next, by client
NewMiddleware(workload) ==
    [clock |-> 0,
     workload |-> workload,
     k |-> 0,
     rate_counters |-> [c \in ClientIds |-> <<>>],
     admitted |-> [c \in ClientIds |-> <<>>],
     audit |-> <<>>]

InitRate ==
    /\ HelperIdle
    /\ mcp = None
    /\ \E workload \in Workloads : server = NewMiddleware(workload)

\* the call that arrives next
NextCall == server.workload[(server.k % Len(server.workload)) + 1]

\* on_call_tool for the call of a client at the time of the clock
OnCallToolFor(call, client_id, required_scope, checked) ==
    IF required_scope # "" /\ required_scope \notin ScopesOf(call.token)
    THEN [server EXCEPT !.k = @ + 1,
                        !.audit = Append(@, AuditRow(call, "PERMISSION DENIED", FALSE))]
    ELSE IF ~checked.ok
    THEN [server EXCEPT !.k = @ + 1,
                        !.rate_counters[client_id] = checked.entries,
                        !.audit = Append(@, AuditRow(call, "RATE LIMIT", FALSE))]
    ELSE [server EXCEPT !.k = @ + 1,
                        !.rate_counters[client_id] = checked.entries,
                        !.admitted[client_id] =
                            Append(@, <<server.clock, required_scope # "">>),
                        !.audit = Append(@, AuditRow(call, "OK", TRUE))]

OnCallTool ==
    /\ server.k < MaxCalls
    /\ server' = OnCallToolFor(NextCall, ClientIdOf(NextCall.token),
                               RequiredScope(NextCall.tool),
                               CheckRateLimit(server.rate_counters[ClientIdOf(NextCall.token)],
                                              RequiredScope(NextCall.tool) # "",
                                              server.clock))
    /\ UNCHANGED <<now, time_str, duration, result, user_input, pre, listVars, mcp>>

\* time.time() moves on
TimePasses ==
    /\ server.clock + Tick <= MaxClock
    /\ server' = [server EXCEPT !.clock = @ + Tick]
    /\ UNCHANGED <<now, time_str, duration, result, user_input, pre, listVars, mcp>>

NextRate == OnCallTool \/ TimePasses

SpecRate == InitRate /\ [][NextRate]_vars

-----------------------------------------------------------------------------
(* Properties of the rate limits *)

\* the number of calls of a class that were admitted for the client within
\* the window seconds before t
AdmittedWithin(srv, client_id, is_write, t) ==
    Cardinality({i \in 1..Len(srv.admitted[client_id]) :
                    /\ srv.admitted[client_id][i][2] = is_write
                    /\ srv.admitted[client_id][i][1] <= t
                    /\ t - srv.admitted[client_id][i][1] < RateLimitOf(is_write)[2]})

\* at every instant up to now no client has more than 10 admitted
\* write-classified and 30 admitted read-classified calls in the window
WithinLimits(srv) ==
    \A client_id \in ClientIds : \A t \in 0..srv.clock : \A is_write \in BOOLEAN :
        AdmittedWithin(srv, client_id, is_write, t) <= RateLimitOf(is_write)[1]

\* the last row of the audit log
LastRow(srv) == srv.audit[Len(srv.audit)]

\* the call that has arrived is denied without the scope it needs, and
\* otherwise admitted exactly when the admitted calls of its own class and
\* client leave room in the window
AdmittedByOwnBudget ==
    server'.k = server.k + 1 =>
        IF /\ RequiredScope(NextCall.tool) # ""
           /\ RequiredScope(NextCall.tool) \notin ScopesOf(NextCall.token)
        THEN /\ LastRow(server').result_summary = "PERMISSION DENIED"
             /\ server'.admitted = server.admitted
        ELSE LastRow(server').success
                 <=> AdmittedWithin(server, ClientIdOf(NextCall.token),
                                    RequiredScope(NextCall.tool) # "", server.clock)
                         < RateLimitOf(RequiredScope(NextCall.tool) # "")[1]

\* C28: for every client id and every instant t, after any sequence of tool
\* calls, the number of admitted write-classified calls (tools listed in
\* TOOL_SCOPES) by that client within the 60 seconds before t is at most 10
\* and the number of admitted read-classified calls is at most 30; the two
\* classes are counted separately, and calls rejected for rate limit or for
\* missing permission do not consume budget.
C28_RateLimits == [][WithinLimits(server') /\ AdmittedByOwnBudget]_vars

\* a write-classified call was rejected for the rate limit of a client that
\* has 10 admitted writes and some admitted reads in the window, and an
\* admitted call that has left the window
C28_Witness ==
    /\ server # None
    /\ server.audit # <<>>
    /\ LastRow(server).result_summary = "RATE LIMIT"
    /\ LastRow(server).action \in DOMAIN TOOL_SCOPES
    /\ AdmittedWithin(server, LastRow(server).client_id, TRUE, server.clock) = WRITE_RATE_LIMIT[1]
    /\ AdmittedWithin(server, LastRow(server).client_id, FALSE, server.clock) > 0
    /\ \E i \in 1..Len(server.admitted[LastRow(server).client_id]) :
           server.clock - server.admitted[LastRow(server).client_id][i][1] >= WRITE_RATE_LIMIT[2]

-----------------------------------------------------------------------------
(* The MCP server: _ensure_initialized.  Tool calls run as tasks of one    *)
(* event loop: a task runs alone from one await to the next, and the       *)
(* awaits of _ensure_initialized are connect() and initialize().  Clients  *)
(* and helpers are named by the order of their construction; 0 is None.    *)

\* the module globals before the first tool call
NewServer ==
    [initialized |-> FALSE,
     mcp_client |-> 0,
     helper |-> 0,
     clients |-> <<>>,
     helpers |-> <<>>,
     pc |-> [t \in Tasks |-> [at |-> "idle"]],
     returned |-> [t \in Tasks |-> None]]

InitLazy ==
    /\ HelperIdle
    /\ mcp = None
    /\ server = NewServer

\* what a tool call gets: the helper of the global _helper, and whether
\* that helper is initialised and its client connected at that moment
HelperReturned(srv) ==
    [kind |-> "helper",
     helper |-> srv.helper,
     ready |-> /\ srv.helpers[srv.helper].initialized
               /\ srv.clients[srv.helpers[srv.helper].client].connected]

\* "if _initialized: return _helper"
ReturnsHelper(t) ==
    /\ server.pc[t].at = "idle"
    /\ server.initialized
    /\ server' = [server EXCEPT !.pc[t] = [at |-> "done"],
                                !.returned[t] = HelperReturned(server)]

\* _mcp_client = DiscordMCPClient(config), up to the await of connect()
BeginsInit(t) ==
    /\ server.pc[t].at = "idle"
    /\ ~server.initialized
    /\ server' = [server EXCEPT
                      !.clients = Append(@, [connected |-> FALSE]),
                      !.mcp_client = Len(server.clients) + 1,
                      !.pc[t] = [at |-> "connect", client |-> Len(server.clients) + 1]]

\* connect() raises: the exception leaves _ensure_initialized
ConnectRaises(t) ==
    /\ server.pc[t].at = "connect"
    /\ server' = [server EXCEPT !.pc[t] = [at |-> "done"], !.returned[t] = Raised]

\* connect() returns; _helper = DiscordEventHelper(config, _mcp_client, ...)
\* is built with the client the global names now, up to the await of
\* initialize()
BuildsHelper(t) ==
    /\ server.pc[t].at = "connect"
    /\ server' = [server EXCEPT
                      !.clients[server.pc[t].client].connected = TRUE,
                      !.helpers = Append(@, [client |-> server.mcp_client,
                                             initialized |-> FALSE]),
                      !.helper = Len(server.helpers) + 1,
                      !.pc[t] = [at |-> "initialize", helper |-> Len(server.helpers) + 1]]

\* the server after initialize() of the task's helper has returned and
\* _initialized is set
Initialized(srv, t) ==
    [srv EXCEPT !.helpers[srv.pc[t].helper].initialized = TRUE,
                !.initialized = TRUE]

\* initialize() returns (it raises nothing); _initialized = True;
\* return _helper
FinishesInit(t) ==
    /\ server.pc[t].at = "initialize"
    /\ server' = [Initialized(server, t) EXCEPT
                      !.pc[t] = [at |-> "done"],
                      !.returned[t] = HelperReturned(Initialized(server, t))]

EnsureInitialized(t) ==
    /\ \/ ReturnsHelper(t)
       \/ BeginsInit(t)
       \/ ConnectRaises(t)
       \/ BuildsHelper(t)
       \/ FinishesInit(t)
    /\ UNCHANGED <<now, time_str, duration, result, user_input, pre, listVars, mcp>>

NextLazy == \E t \in Tasks : EnsureInitialized(t)

SpecLazy == InitLazy /\ [][NextLazy]_vars

-----------------------------------------------------------------------------
(* Properties of the lazy initialisation *)

\* the tasks whose call of _ensure_initialized has returned a helper
Served == {t \in Tasks : server.returned[t] # None /\ server.returned[t] # Raised}

\* no call of connect() has raised
NoConnectRaised == \A t \in Tasks : server.returned[t] # Raised

\* C29: lazy initialisation runs once: under any interleaving of concurrent
\* first tool calls, _ensure_initialized creates and connects the Discord
\* MCP client and creates the helper at most one time, and every tool call
\* receives that same fully initialised helper instance.
C29_InitOnce ==
    NoConnectRaised =>
        /\ Len(server.clients) <= 1
        /\ Len(server.helpers) <= 1
        /\ \A t \in Served : server.returned[t].ready
        /\ \A t, u \in Served : server.returned[t].helper = server.returned[u].helper

-----------------------------------------------------------------------------
(* The MCP server: one tool call on a server that has taken none, from the *)
(* middleware through the tool wrapper to the method of the helper.        *)

\* the tools of the server that need no scope
ReadTools ==
    {"list_upcoming_events", "list_events_on_specific_day", "get_server_info",
     "list_channels", "get_online_members_count", "list_online_members",
     "get_channel_messages", "summarize_channel"}

ServerTools == DOMAIN TOOL_SCOPES \cup ReadTools

\* the keywords with which the tool wrapper calls the helper's method
WrapperKeywords(tool) ==
    CASE tool = "create_event" ->
             {"name", "start_time", "description", "duration_hours", "location",
              "event_type", "channel_id", "triggered_by"}
      [] tool = "delete_event_by_name" -> {"event_name", "triggered_by"}
      [] tool = "update_event" -> {"event_id", "updates", "triggered_by"}
      [] tool = "send_message" -> {"channel_id", "content", "mentions", "triggered_by"}
      [] tool = "delete_message" -> {"channel_id", "message_id", "content", "triggered_by"}
      [] tool = "delete_last_message" -> {"channel_id", "triggered_by"}
      [] tool = "list_upcoming_events" ->
             {"limit", "days_ahead", "from_date", "to_date", "location",
              "group_by_days", "timeframe"}
      [] tool = "list_events_on_specific_day" -> {"from_date", "to_date", "location", "limit"}
      [] tool = "list_channels" -> {"channel_type"}
      [] tool = "list_online_members" -> {"limit"}
      [] tool \in {"get_channel_messages", "summarize_channel"} -> {"channel_id", "limit"}
      [] OTHER -> {}

\* the parameters of the method of DiscordEventHelper with the tool's name
HelperParameters(tool) ==
    CASE tool = "create_event" ->
             {"name", "start_time", "description", "duration_hours", "location",
              "event_type", "channel_id"}
      [] tool = "delete_event_by_name" -> {"event_name"}
      [] tool = "update_event" -> {"event_id", "updates"}
      [] tool = "send_message" -> {"channel_id", "content", "mentions"}
      [] tool = "delete_message" -> {"channel_id", "message_id", "content"}
      [] tool = "delete_last_message" -> {"channel_id"}
      [] tool = "list_upcoming_events" ->
             {"limit", "days_ahead", "from_date", "to_date", "location",
              "group_by_days", "timeframe"}
      [] tool = "list_events_on_specific_day" -> {"from_date", "to_date", "location", "limit"}
      [] tool = "list_channels" -> {"channel_type"}
      [] tool = "list_online_members" -> {"limit"}
      [] tool \in {"get_channel_messages", "summarize_channel"} -> {"channel_id", "limit"}
      [] OTHER -> {}

\* what the helper's method, once entered, returns or raises
HelperOutcomes == {"success", "error", "raises"}

AccessTokens ==
    { AccessToken("dashboard", "reader"), AccessToken("voicebot", "writer"),
      AccessToken("operator", "admin"), None }

\* await helper.<tool>(**keywords): a keyword the method does not have is a
\* TypeError and the method is not entered
HelperCall(tool, keywords, outcome) ==
    IF ~(keywords \subseteq HelperParameters(tool))
    THEN [kind |-> "TypeError"]
    ELSE IF outcome = "raises" THEN Raised
    ELSE [kind |-> "returned", method |-> tool, keywords |-> keywords, result |-> outcome]

\* on_call_tool around the tool wrapper, for the first call of the server
ToolOutcome(call, outcome) ==
    IF /\ RequiredScope(call.tool) # ""
       /\ RequiredScope(call.tool) \notin ScopesOf(call.token)
    THEN [kind |-> "PermissionError"]
    ELSE IF ~CheckRateLimit(<<>>, RequiredScope(call.tool) # "", 0).ok
    THEN [kind |-> "RateLimit"]
    ELSE HelperCall(call.tool, WrapperKeywords(call.tool), outcome)

InitTools ==
    /\ HelperIdle
    /\ mcp = None
    /\ \E token \in AccessTokens : \E tool \in ServerTools :
           server = [call |-> ToolCall(token, tool), outcome |-> None]

CallTool ==
    /\ server.outcome = None
    /\ \E outcome \in HelperOutcomes :
           server' = [server EXCEPT !.outcome = ToolOutcome(server.call, outcome)]
    /\ UNCHANGED <<now, time_str, duration, result, user_input, pre, listVars, mcp>>

NextTools == CallTool

SpecTools == InitTools /\ [][NextTools]_vars

-----------------------------------------------------------------------------
(* Properties of the tool calls *)

\* the call of a write or admin tool by a caller that holds the scope the
\* tool needs, within its rate limit, is over
PermittedWriteCall ==
    /\ server.outcome # None
    /\ server.call.tool \in DOMAIN TOOL_SCOPES
    /\ TOOL_SCOPES[server.call.tool] \in ScopesOf(server.call.token)

\* C30: a call to a write or admin tool (create_event, update_event,
\* send_message, delete_event_by_name, delete_message, delete_last_message)
\* by a caller that holds the required scope and is within its rate limit
\* invokes the DiscordEventHelper method of the same name with the forwarded
\* arguments and returns that method's result (or raises what the method
\* raises); the helper accepts every argument the tool wrapper passes.
C30_WriteToolReachesHelper ==
    PermittedWriteCall =>
        /\ server.outcome.kind \in {"returned", "raise"}
        /\ server.outcome.kind = "returned" => server.outcome.method = server.call.tool

====
